---- MODULE Spec2Model ----
(***************************************************************************)
(* sc-audit-copilot API: users, bearer tokens, user-owned audits and their *)
(* child resources (media, findings, evidence links).                      *)
(*                                                                         *)
(* The repository holds several entrypoints over the same database schema: *)
(*   "server"  apps/api/server.js with src/routes/findings.routes.js and   *)
(*             the modular copy of its audit routes (which adds            *)
(*             GET /audits/:id/evidence);                                  *)
(*   "part000" the second server entrypoint (register ignores `role`);     *)
(*   "app"     apps/api/src/app.js with auth.routes.js and                 *)
(*             audits.routes.js.                                           *)
(* A behaviour runs one of them, chosen in Init.                           *)
(***************************************************************************)
EXTENDS Integers, Sequences, FiniteSets, Bags, TLC

\* ---------------------------------------------------------------- bounds
MaxUsers == 2
MaxAudits == 2
MaxMedia == 2
MaxFindings == 1
MaxReq == 2

\* MAX_UPLOAD_BYTES, counted in GiB (5 * 1024 * 1024 * 1024 bytes)
MAX_UPLOAD_BYTES == 5

VARIABLES build, users, tokens, audits, media, disk, findings, evidence,
          inflight, resp, call, template

vars == <<build, users, tokens, audits, media, disk, findings, evidence,
          inflight, resp, call, template>>

Builds == {"server", "part000", "app"}

\* ------------------------------------------------------- strings as text
\* An email is a sequence of characters, so that trim and toLowerCase act.
Blank == " "

LowerLetters ==
  <<"a", "b", "c", "d", "e", "f", "g", "h", "i", "j", "k", "l", "m",
    "n", "o", "p", "q", "r", "s", "t", "u", "v", "w", "x", "y", "z">>

UpperLetters ==
  <<"A", "B", "C", "D", "E", "F", "G", "H", "I", "J", "K", "L", "M",
    "N", "O", "P", "Q", "R", "S", "T", "U", "V", "W", "X", "Y", "Z">>

\* the place of a letter in one of the two alphabets, 0 for another character
LetterIndex(letters, c) ==
  IF \E i \in DOMAIN letters : letters[i] = c
  THEN CHOOSE i \in DOMAIN letters : letters[i] = c
  ELSE 0

ToLowerChar(c) ==
  IF c = "A" THEN "a" ELSE IF c = "B" THEN "b"
  ELSE LET i == LetterIndex(UpperLetters, c)
       IN IF i = 0 THEN c ELSE LowerLetters[i]

ToUpperChar(c) ==
  LET i == LetterIndex(LowerLetters, c)
  IN IF i = 0 THEN c ELSE UpperLetters[i]

ToUpperCase(s) == [i \in 1..Len(s) |-> ToUpperChar(s[i])]

ToLowerCase(s) == [i \in 1..Len(s) |-> ToLowerChar(s[i])]

RECURSIVE TrimStart(_)
TrimStart(s) == IF s # <<>> /\ Head(s) = Blank THEN TrimStart(Tail(s)) ELSE s

RECURSIVE TrimEnd(_)
TrimEnd(s) ==
  IF s # <<>> /\ s[Len(s)] = Blank THEN TrimEnd(SubSeq(s, 1, Len(s) - 1)) ELSE s

Trim(s) == TrimEnd(TrimStart(s))

\* String(email || "").trim().toLowerCase()
CleanEmail(email) == ToLowerCase(Trim(email))

\* bcrypt.hash / bcrypt.compare: compare(p, hash(q)) is true exactly for p = q
\* on the passwords drawn here.
BcryptHash(password) == <<"bcrypt", password>>

BcryptCompare(password, passwordHash) == passwordHash = BcryptHash(password)

\* ------------------------------------------------------------ the tokens
\* a request without verified claims has no req.user: sub -1 is no user's id
\* and differs from the NULL (0) of an audit without owner
NoToken == [kind |-> "none", sub |-> -1, role |-> ""]
BadToken == [kind |-> "invalid", sub |-> -1, role |-> ""]
ExpiredToken == [kind |-> "expired", sub |-> -1, role |-> ""]

\* reply.jwtSign({sub, email, role})
JwtSign(userId) == [kind |-> "valid", sub |-> userId, role |-> users[userId].role]

\* what a request can carry: nothing, garbage, an expired token, or a token
\* this server has signed
Callers == {NoToken, BadToken, ExpiredToken} \cup tokens

\* ---------------------------------------------------------- the responses
\* The keys of the JSON body: a success is sent as {ok: true, ...}, an error
\* as {ok: false, message}; a handler that sends another body says so with
\* WithBody.
OkTrue == "ok:true"
OkFalseMessage == "ok:false,message"

Reply(route, status, msg, tok, audit, rows) ==
  [route |-> route, status |-> status, msg |-> msg, tok |-> tok,
   audit |-> audit, rows |-> rows,
   body |-> IF status >= 400 THEN OkFalseMessage ELSE OkTrue]

WithBody(reply, body) == [reply EXCEPT !.body = body]

UserIds == 1..Len(users)
AuditIds == 1..Len(audits)
MediaIds == 1..Len(media)
FindingIds == 1..Len(findings)

\* prisma.user.findUnique({ where: { email } }): 0 when there is none
FindUserByEmail(email) ==
  IF \E u \in UserIds : users[u].email = email
  THEN CHOOSE u \in UserIds : users[u].email = email
  ELSE 0

\* a call of a helper function: its name, its argument, and its result once
\* the call is done
NoCall == [fn |-> "none", arg |-> <<>>, done |-> FALSE, out |-> <<>>]
Asked(fn, arg) == [fn |-> fn, arg |-> arg, done |-> FALSE, out |-> <<>>]

\* ------------------------------------------------------------------ Init
\* An Audit row that predates the userId column has userId NULL (0 here).
\* reportJson is NULL (<<>>) or holds one report (<<report>>); title is NULL
\* (<<>>) or text.
NoReport == <<>>

LegacyAudit == [userId |-> 0, title |-> <<>>, reportJson |-> NoReport]

InitStore ==
  /\ build \in Builds
  /\ users = <<>>
  /\ tokens = {}
  /\ audits \in {<<>>, <<LegacyAudit>>}
  /\ media = <<>>
  /\ disk = {}
  /\ findings = <<>>
  /\ evidence = EmptyBag
  /\ inflight = EmptyBag
  /\ resp = Reply("none", 0, "", NoToken, 0, {})
  /\ template = TRUE

Init == InitStore /\ call = NoCall

\* ------------------------------------------------------------------ auth
\* (mutant) the duplicate lookup is made with the email as sent
RegisterOutcomeRawLookup(email, password, role) ==
  LET cleanEmail == CleanEmail(email)
      cleanRole == IF role = "" THEN "auditor" ELSE role
  IN IF cleanEmail = <<>> \/ password = ""
     THEN [status |-> 400, msg |-> "email and password are required",
           create |-> FALSE, email |-> cleanEmail, role |-> cleanRole]
     ELSE IF FindUserByEmail(email) # 0
     THEN [status |-> 409, msg |-> "User already exists",
           create |-> FALSE, email |-> cleanEmail, role |-> cleanRole]
     ELSE [status |-> 201, msg |-> "",
           create |-> TRUE, email |-> cleanEmail, role |-> cleanRole]

\* POST /auth/register of server.js: [status, msg, create, role]
RegisterOutcome(email, password, role) ==
  LET cleanEmail == CleanEmail(email)
      cleanRole == IF role = "" THEN "auditor" ELSE role
  IN IF cleanEmail = <<>> \/ password = ""
     THEN [status |-> 400, msg |-> "email and password are required",
           create |-> FALSE, email |-> cleanEmail, role |-> cleanRole]
     ELSE IF FindUserByEmail(cleanEmail) # 0
     THEN [status |-> 409, msg |-> "User already exists",
           create |-> FALSE, email |-> cleanEmail, role |-> cleanRole]
     ELSE [status |-> 201, msg |-> "",
           create |-> TRUE, email |-> cleanEmail, role |-> cleanRole]

\* POST /auth/register of the second entrypoint: the role is always auditor
RegisterOutcomeP(email, password, role) ==
  [RegisterOutcome(email, password, "") EXCEPT !.role = "auditor"]

\* the User_email_key unique index: prisma.user.create throws on a duplicate
UserEmailKeyViolated(email) == FindUserByEmail(email) # 0

\* POST /auth/register of auth.routes.js: create, and map a "unique" error
RegisterOutcomeRoutes(email, password, role) ==
  LET normalizedEmail == CleanEmail(email)
      r == IF role = "" THEN "auditor" ELSE role
  IN IF email = <<>> \/ password = ""
     THEN [status |-> 400, msg |-> "email and password are required",
           create |-> FALSE, email |-> normalizedEmail, role |-> r]
     ELSE IF UserEmailKeyViolated(normalizedEmail)
     THEN [status |-> 409, msg |-> "email already exists",
           create |-> FALSE, email |-> normalizedEmail, role |-> r]
     ELSE [status |-> 201, msg |-> "",
           create |-> TRUE, email |-> normalizedEmail, role |-> r]

RegisterFor(b, email, password, role) ==
  IF b = "server" THEN RegisterOutcome(email, password, role)
  ELSE IF b = "part000" THEN RegisterOutcomeP(email, password, role)
  ELSE RegisterOutcomeRoutes(email, password, role)

Register(email, password, role) ==
  LET o == RegisterFor(build, email, password, role)
  IN /\ o.create => Len(users) < MaxUsers
     /\ users' = IF o.create
                 THEN Append(users, [email |-> o.email,
                                     passwordHash |-> BcryptHash(password),
                                     role |-> o.role])
                 ELSE users
     /\ resp' = Reply("register", o.status, o.msg, NoToken, 0, {})
     /\ UNCHANGED <<template, call, build, tokens, audits, media, disk,
                    findings, evidence, inflight>>

\* (mutant) the lookup trims the email but keeps its letter case
LoginOutcomeNoLower(email, password) ==
  LET cleanEmail == Trim(email)
      user == FindUserByEmail(cleanEmail)
  IN IF cleanEmail = <<>> \/ password = ""
     THEN [status |-> 400, msg |-> "email and password are required", user |-> 0]
     ELSE IF user = 0
     THEN [status |-> 401, msg |-> "Invalid credentials", user |-> 0]
     ELSE IF ~BcryptCompare(password, users[user].passwordHash)
     THEN [status |-> 401, msg |-> "Invalid credentials", user |-> 0]
     ELSE [status |-> 200, msg |-> "", user |-> user]

\* (mutant) a missing user is answered with a message of its own
LoginOutcomeNamesMissingUser(email, password) ==
  LET cleanEmail == CleanEmail(email)
      user == FindUserByEmail(cleanEmail)
  IN IF cleanEmail = <<>> \/ password = ""
     THEN [status |-> 400, msg |-> "email and password are required", user |-> 0]
     ELSE IF user = 0
     THEN [status |-> 404, msg |-> "User not found", user |-> 0]
     ELSE IF ~BcryptCompare(password, users[user].passwordHash)
     THEN [status |-> 401, msg |-> "Invalid credentials", user |-> 0]
     ELSE [status |-> 200, msg |-> "", user |-> user]

\* POST /auth/login of server.js and of the second entrypoint:
\* [status, msg, user]
LoginOutcome(email, password) ==
  LET cleanEmail == CleanEmail(email)
      user == FindUserByEmail(cleanEmail)
  IN IF cleanEmail = <<>> \/ password = ""
     THEN [status |-> 400, msg |-> "email and password are required", user |-> 0]
     ELSE IF user = 0
     THEN [status |-> 401, msg |-> "Invalid credentials", user |-> 0]
     ELSE IF ~BcryptCompare(password, users[user].passwordHash)
     THEN [status |-> 401, msg |-> "Invalid credentials", user |-> 0]
     ELSE [status |-> 200, msg |-> "", user |-> user]

\* POST /auth/login of auth.routes.js
LoginOutcomeRoutes(email, password) ==
  LET normalizedEmail == CleanEmail(email)
      user == FindUserByEmail(normalizedEmail)
  IN IF email = <<>> \/ password = ""
     THEN [status |-> 400, msg |-> "email and password are required", user |-> 0]
     ELSE IF user = 0
     THEN [status |-> 401, msg |-> "invalid credentials", user |-> 0]
     ELSE IF ~BcryptCompare(password, users[user].passwordHash)
     THEN [status |-> 401, msg |-> "invalid credentials", user |-> 0]
     ELSE [status |-> 200, msg |-> "", user |-> user]

LoginFor(b, email, password) ==
  IF b = "app" THEN LoginOutcomeRoutes(email, password)
  ELSE LoginOutcome(email, password)

Login(email, password) ==
  LET o == LoginFor(build, email, password)
  IN /\ tokens' = IF o.status = 200 THEN tokens \cup {JwtSign(o.user)} ELSE tokens
     /\ resp' = Reply("login", o.status, o.msg,
                      IF o.status = 200 THEN JwtSign(o.user) ELSE NoToken, 0, {})
     /\ UNCHANGED <<template, call, build, users, audits, media, disk,
                    findings, evidence, inflight>>

\* ----------------------------------------------------------- requireAuth
\* the preHandler of the running entrypoint: status 0 lets the request pass
\* and sets req.user to the token's claims
RequireAuth(tok) ==
  IF tok.kind = "valid" THEN [status |-> 0, msg |-> ""]
  ELSE IF build = "server"
  THEN IF tok.kind = "none"
       THEN [status |-> 401, msg |-> "Missing Bearer token"]
       ELSE [status |-> 401, msg |-> "Invalid token"]
  ELSE IF build = "part000" THEN [status |-> 401, msg |-> "Unauthorized"]
  ELSE [status |-> 401, msg |-> "unauthorized"]

\* -------------------------------------------------------- ownership gates
\* (mutant) the owner comparison is dropped
requireAuditOwnerNoOwnerCheck(tok, auditId) ==
  IF auditId \notin AuditIds THEN [status |-> 404, msg |-> "Audit not found"]
  ELSE [status |-> 0, msg |-> ""]

\* requireAuditOwner of server.js (and of the second entrypoint)
requireAuditOwner(tok, auditId) ==
  IF auditId \notin AuditIds THEN [status |-> 404, msg |-> "Audit not found"]
  ELSE IF tok.role # "admin" /\ audits[auditId].userId # tok.sub
  THEN [status |-> 403, msg |-> "Forbidden"]
  ELSE [status |-> 0, msg |-> ""]

\* assertAuditAccess of findings.routes.js: an audit without owner is open
assertAuditAccess(tok, auditId) ==
  IF tok.kind # "valid" THEN [status |-> 401, msg |-> "Missing Bearer token"]
  ELSE IF auditId \notin AuditIds THEN [status |-> 404, msg |-> "Audit not found"]
  ELSE LET isAdmin == tok.role = "admin"
           ownerId == audits[auditId].userId
       IN IF ~isAdmin /\ ownerId # 0 /\ ownerId # tok.sub
          THEN [status |-> 403, msg |-> "Forbidden"]
          ELSE [status |-> 0, msg |-> ""]

\* isAdmin of the findings routes kept in auth.routes.js: the role is
\* lower-cased before it is compared
LowerRole(role) == IF role \in {"Admin", "ADMIN"} THEN "admin" ELSE role

isAdmin(tok) == LowerRole(tok.role) = "admin"

\* assertAuditAccess of the findings routes kept in auth.routes.js
assertAuditAccessRoutes(tok, auditId) ==
  IF auditId \notin AuditIds THEN [status |-> 404, msg |-> "Audit not found"]
  ELSE IF ~isAdmin(tok) /\ audits[auditId].userId # tok.sub
  THEN [status |-> 403, msg |-> "Forbidden"]
  ELSE [status |-> 0, msg |-> ""]

\* ------------------------------------------------------------ GET /health
Health ==
  /\ resp' = Reply("health", 200, "", NoToken, 0, {})
  /\ UNCHANGED <<template, call, build, users, tokens, audits, media, disk,
                 findings, evidence, inflight>>

\* ----------------------------------------------------------- GET /auth/me
AuthMe(tok) ==
  LET a == RequireAuth(tok)
  IN /\ resp' = IF a.status # 0 THEN Reply("me", a.status, a.msg, tok, 0, {})
                ELSE Reply("me", 200, "", tok, 0, {})
     /\ UNCHANGED <<template, call, build, users, tokens, audits, media,
                    disk, findings, evidence, inflight>>

\* ------------------------------------------------------------ GET /audits
DefaultTake == 20
TakeCap == 100

Min(a, b) == IF a < b THEN a ELSE b
Max(a, b) == IF a > b THEN a ELSE b

\* a query parameter is <<>> when absent and <<n>> when given as the number n
\* Math.min(Number(req.query?.take || 20), 100)
TakeOf(q) == Min(IF q = <<>> THEN DefaultTake ELSE q[1], TakeCap)

\* Math.max(Number(req.query?.skip || 0), 0)
SkipOf(q) == Max(IF q = <<>> THEN 0 ELSE q[1], 0)

\* findMany({ where, take, skip, orderBy: { createdAt: "desc" } }) over the
\* audit ids in `ids` (an id is the creation rank): the ids it returns
FindManyAudits(ids, take, skip) ==
  {a \in ids : LET newer == Cardinality({b \in ids : b > a})
               IN newer >= skip /\ newer < skip + take}


\* the where clause of GET /audits in server.js
ListAuditsWhere(tok) ==
  IF tok.role = "admin" THEN AuditIds
  ELSE {a \in AuditIds : audits[a].userId = tok.sub}

\* GET /audits of server.js, the second entrypoint and the modular copy
ListAuditsOutcome(tok, take, skip) ==
  LET a == RequireAuth(tok)
  IN IF a.status # 0 THEN Reply("listAudits", a.status, a.msg, tok, 0, {})
     ELSE Reply("listAudits", 200, "", tok, 0,
                FindManyAudits(ListAuditsWhere(tok), TakeOf(take), SkipOf(skip)))

\* GET /audits of audits.routes.js: no preHandler, no where clause, no caps
ListAuditsOutcomeRoutes(tok, take, skip) ==
  Reply("listAudits", 200, "", tok, 0,
        FindManyAudits(AuditIds,
                       IF take = <<>> THEN DefaultTake ELSE take[1],
                       IF skip = <<>> THEN 0 ELSE skip[1]))

ListAudits(tok, take, skip) ==
  /\ resp' = IF build = "app" THEN ListAuditsOutcomeRoutes(tok, take, skip)
             ELSE ListAuditsOutcome(tok, take, skip)
  /\ UNCHANGED <<template, call, build, users, tokens, audits, media, disk,
                 findings, evidence, inflight>>

\* the take and skip GET /audits hands to findMany, per entrypoint;
\* audits.routes.js: Number(req.query.take || 20), Number(req.query.skip || 0)
TakeOfRoutes(q) == IF q = <<>> THEN DefaultTake ELSE q[1]

SkipOfRoutes(q) == IF q = <<>> THEN 0 ELSE q[1]

ListAuditsQueryFor(b, take, skip) ==
  IF b = "app" THEN [take |-> TakeOfRoutes(take), skip |-> SkipOfRoutes(skip)]
  ELSE [take |-> TakeOf(take), skip |-> SkipOf(skip)]

ListAuditsQueryCall ==
  /\ call.fn = "listAuditsQuery" /\ ~call.done
  /\ call' = [call EXCEPT !.done = TRUE,
                          !.out = ListAuditsQueryFor(build, call.arg.take,
                                                     call.arg.skip)]
  /\ UNCHANGED <<template, build, users, tokens, audits, media, disk,
                 findings, evidence, inflight, resp>>

\* --------------------------------------------------- GET /audits/:auditId
GetAuditOutcome(tok, auditId) ==
  LET a == RequireAuth(tok)
      g == requireAuditOwner(tok, auditId)
  IN IF a.status # 0 THEN Reply("getAudit", a.status, a.msg, tok, 0, {})
     ELSE IF g.status # 0 THEN Reply("getAudit", g.status, g.msg, tok, auditId, {})
     ELSE Reply("getAudit", 200, "", tok, auditId, {auditId})

\* GET /audits/:auditId of audits.routes.js: no preHandler, no owner check
GetAuditOutcomeRoutes(tok, auditId) ==
  IF auditId \notin AuditIds
  THEN WithBody(Reply("getAudit", 404, "", tok, auditId, {}),
                "ok:false,error,auditId")
  ELSE Reply("getAudit", 200, "", tok, auditId, {auditId})

GetAudit(tok, auditId) ==
  /\ resp' = IF build = "app" THEN GetAuditOutcomeRoutes(tok, auditId)
             ELSE GetAuditOutcome(tok, auditId)
  /\ UNCHANGED <<template, call, build, users, tokens, audits, media, disk,
                 findings, evidence, inflight>>

\* ----------------------------------------------------------- POST /audits
\* server.js: the caller becomes the owner
CreateAudit(tok) ==
  LET a == RequireAuth(tok)
  IN /\ build # "app"
     /\ a.status = 0 => Len(audits) < MaxAudits
     /\ audits' = IF a.status = 0 THEN Append(audits, [userId |-> tok.sub,
                                                        title |-> <<>>,
                                                        reportJson |-> NoReport])
                  ELSE audits
     /\ resp' = IF a.status # 0
                THEN Reply("createAudit", a.status, a.msg, tok, 0, {})
                ELSE Reply("createAudit", 201, "", tok, Len(audits) + 1, {})
     /\ UNCHANGED <<template, call, build, users, tokens, media, disk,
                    findings, evidence, inflight>>

\* audits.routes.js: no preHandler, and the row gets no userId; a body
\* without title gets the default title
DraftTitle == <<"D", "r", "a", "f", "t">>

CreateAuditRoutes(tok) ==
  /\ build = "app"
  /\ Len(audits) < MaxAudits
  /\ audits' = Append(audits, [userId |-> 0, title |-> DraftTitle,
                               reportJson |-> NoReport])
  /\ resp' = Reply("createAudit", 201, "", tok, Len(audits) + 1, {})
  /\ UNCHANGED <<template, call, build, users, tokens, media, disk, findings,
                 evidence, inflight>>

\* ------------------------------------------- POST /audits/:auditId/media
\* kindToSubdir of server.js
kindToSubdir(kind) ==
  IF kind = "image" THEN "images"
  ELSE IF kind = "video" THEN "video"
  ELSE IF kind = "audio" THEN "audio"
  ELSE "uploads"

\* makeStorageKey: <auditId>/media/<subdir>/<timestamp>_<random><ext>; the
\* timestamp and the random bytes make the n-th key written differ from the
\* keys written before it
\* the disk holds files [key, bytes]: the storage key and the size
Files == {f.key : f \in disk}

UsedKeys == Files \cup {media[m].storageKey : m \in MediaIds}

makeStorageKey(auditId, kind) ==
  [audit |-> auditId, sub |-> kindToSubdir(kind),
   n |-> 1 + Cardinality({k.n : k \in UsedKeys})]

\* The multipart plugin is registered with limits.fileSize = MAX_UPLOAD_BYTES.
\* The handler never reads part.file.truncated. What a file over the limit
\* does to `await pipeline(part.file, writeStream)` is the plugin's choice:
\*   "truncate"  the stream ends after MAX_UPLOAD_BYTES bytes, pipeline resolves;
\*   "throw"     the stream errors, pipeline rejects, the catch answers 500.
OverLimitModes == {"truncate", "throw"}

\* the bytes that reach the disk for a file of `size`
BytesWritten(size) == Min(size, MAX_UPLOAD_BYTES)

\* What else can go wrong in a request: nothing; the write stream fails
\* before the last byte and `await pipeline` rejects; or
\* prisma.mediaFile.create throws.
UploadFaults == {"none", "write", "insert"}

\* (mutant) the row is inserted without waiting for the pipeline
UploadOutcomeInsertBeforeWrite(size, overLimit, fault) ==
  LET piped == ~(size > MAX_UPLOAD_BYTES /\ overLimit = "throw")
               /\ fault # "write"
      bytes == IF fault = "write" THEN BytesWritten(size) - 1
               ELSE BytesWritten(size)
  IN [bytes |-> bytes, piped |-> piped, statSize |-> bytes,
      created |-> fault # "insert"]

\* The steps of the handler after the file part is found, in their order:
\* `await pipeline(part.file, writeStream)` leaves `bytes` in the file and
\* resolves (piped) or rejects; only then fs.statSync reads the size of the
\* file and prisma.mediaFile.create inserts the row.
UploadOutcome(size, overLimit, fault) ==
  LET piped == ~(size > MAX_UPLOAD_BYTES /\ overLimit = "throw")
               /\ fault # "write"
      bytes == IF fault = "write" THEN BytesWritten(size) - 1
               ELSE BytesWritten(size)
  IN [bytes |-> bytes, piped |-> piped, statSize |-> bytes,
      created |-> piped /\ fault # "insert"]

\* size 0 stands for a request without a file part
UploadMedia(tok, auditId, kind, size, overLimit, fault) ==
  LET a == RequireAuth(tok)
      g == requireAuditOwner(tok, auditId)
      storageKey == makeStorageKey(auditId, kind)
      o == UploadOutcome(size, overLimit, fault)
      written == a.status = 0 /\ g.status = 0 /\ size > 0
      created == written /\ o.created
  IN /\ build # "app"
     /\ created => Len(media) < MaxMedia
     /\ written => storageKey.n <= MaxMedia
     /\ disk' = IF written
                THEN disk \cup {[key |-> storageKey, bytes |-> o.bytes]}
                ELSE disk
     /\ media' = IF created
                 THEN Append(media, [auditId |-> auditId,
                                     kind |-> kind,
                                     sizeBytes |-> o.statSize,
                                     storageKey |-> storageKey,
                                     sent |-> size])
                 ELSE media
     /\ resp' =
          IF a.status # 0 THEN Reply("uploadMedia", a.status, a.msg, tok, 0, {})
          ELSE IF g.status # 0
          THEN Reply("uploadMedia", g.status, g.msg, tok, auditId, {})
          ELSE IF size = 0
          THEN Reply("uploadMedia", 400, "No file uploaded", tok, auditId, {})
          ELSE IF ~o.created
          THEN Reply("uploadMedia", 500, "Failed to upload media", tok, auditId, {})
          ELSE Reply("uploadMedia", 201, "", tok, auditId, {Len(media) + 1})
     /\ UNCHANGED <<template, call, build, users, tokens, audits, findings,
                    evidence, inflight>>

\* -------------------------------------------- GET /audits/:auditId/media
ListMedia(tok, auditId) ==
  LET a == RequireAuth(tok)
      g == requireAuditOwner(tok, auditId)
  IN /\ build = "server"
     /\ resp' =
          IF a.status # 0 THEN Reply("listMedia", a.status, a.msg, tok, 0, {})
          ELSE IF g.status # 0
          THEN Reply("listMedia", g.status, g.msg, tok, auditId, {})
          ELSE Reply("listMedia", 200, "", tok, auditId,
                     {m \in MediaIds : media[m].auditId = auditId})
     /\ UNCHANGED <<template, call, build, users, tokens, audits, media,
                    disk, findings, evidence, inflight>>

\* ------------------------------------------ GET /media/:mediaId/download
\* (faulty variant) the handler does not test fs.existsSync: fs.statSync
\* throws for the absent file and the catch answers 500
DownloadMediaNoExistsCheck(tok, mediaId) ==
  LET a == RequireAuth(tok)
      auditId == media[mediaId].auditId
      g == requireAuditOwner(tok, auditId)
  IN /\ build = "server"
     /\ resp' =
          IF a.status # 0 THEN Reply("downloadMedia", a.status, a.msg, tok, 0, {})
          ELSE IF mediaId \notin MediaIds
          THEN WithBody(Reply("downloadMedia", 404, "media not found", tok, 0, {}),
                        "statusCode,error,message")
          ELSE IF g.status # 0
          THEN Reply("downloadMedia", g.status, g.msg, tok, auditId, {})
          ELSE IF media[mediaId].storageKey \notin Files
          THEN WithBody(Reply("downloadMedia", 500, "ENOENT", tok, auditId, {}),
                        "statusCode,error,message")
          ELSE WithBody(Reply("downloadMedia", 200, "", tok, auditId, {mediaId}),
                        "stream")
     /\ UNCHANGED <<template, call, build, users, tokens, audits, media,
                    disk, findings, evidence, inflight>>

\* The storage keys of the rows are those makeStorageKey has built, relative
\* paths under the audit's directory, for which safeJoin returns; existsSync
\* and statSync run without an await between them.
DownloadMedia(tok, mediaId) ==
  LET a == RequireAuth(tok)
      auditId == media[mediaId].auditId
      g == requireAuditOwner(tok, auditId)
  IN /\ build = "server"
     /\ resp' =
          IF a.status # 0 THEN Reply("downloadMedia", a.status, a.msg, tok, 0, {})
          ELSE IF mediaId \notin MediaIds
          THEN WithBody(Reply("downloadMedia", 404, "media not found", tok, 0, {}),
                        "statusCode,error,message")
          ELSE IF g.status # 0
          THEN Reply("downloadMedia", g.status, g.msg, tok, auditId, {})
          ELSE IF media[mediaId].storageKey \notin Files
          THEN WithBody(Reply("downloadMedia", 404, "file missing on disk",
                              tok, auditId, {}),
                        "statusCode,error,message")
          ELSE WithBody(Reply("downloadMedia", 200, "", tok, auditId, {mediaId}),
                        "stream")
     /\ UNCHANGED <<template, call, build, users, tokens, audits, media,
                    disk, findings, evidence, inflight>>

\* a file of the storage directory is removed from outside the API (the
\* case the download handler tests with fs.existsSync)
FileRemoved(storageKey) ==
  /\ storageKey \in Files
  /\ disk' = {f \in disk : f.key # storageKey}
  /\ UNCHANGED <<template, call, build, users, tokens, audits, media,
                 findings, evidence, inflight, resp>>

\* ----------------------------------------- GET /audits/:auditId/findings
ListFindings(tok, auditId) ==
  LET a == RequireAuth(tok)
      g == assertAuditAccess(tok, auditId)
  IN /\ build # "app"
     /\ resp' =
          IF a.status # 0 THEN Reply("listFindings", a.status, a.msg, tok, 0, {})
          ELSE IF g.status # 0
          THEN Reply("listFindings", g.status, g.msg, tok, auditId, {})
          ELSE Reply("listFindings", 200, "", tok, auditId,
                     {f \in FindingIds : findings[f].auditId = auditId})
     /\ UNCHANGED <<template, call, build, users, tokens, audits, media,
                    disk, findings, evidence, inflight>>

\* ------------------------------------------------ values of a JSON body
\* A field of a request body is absent (undefined) or a JSON value; text
\* holds the value as written.
JsUndefined == [type |-> "undefined", text |-> ""]
JsNull == [type |-> "null", text |-> ""]
JsString(s) == [type |-> "string", text |-> s]
JsNumber(n) == [type |-> "number", text |-> n]
JsBoolean(b) == [type |-> "boolean", text |-> b]

\* typeof v
TypeOf(v) ==
  IF v.type = "null" THEN "object" ELSE v.type

\* !!v
JsTruthy(v) ==
  CASE v.type \in {"undefined", "null"} -> FALSE
    [] v.type = "string" -> v.text # ""
    [] v.type = "number" -> v.text # "0"
    [] v.type = "boolean" -> v.text = "true"
    [] OTHER -> TRUE

\* v ?? dflt
Coalesce(v, dflt) ==
  IF v.type \in {"undefined", "null"} THEN dflt ELSE v

\* ---------------------------------------- POST /audits/:auditId/findings
\* (mutant) only the truthiness of the title is tested
TitleRequiredFalsyOnly(body) == ~JsTruthy(body.title)

\* !body.title || typeof body.title !== "string"
TitleRequired(body) ==
  ~JsTruthy(body.title) \/ TypeOf(body.title) # "string"

\* the data of finding.create
FindingData(auditId, body) ==
  [auditId |-> auditId, title |-> body.title.text,
   severity |-> Coalesce(body.severity, JsString("medium")).text]

\* (mutant) the handler goes on after the gate has answered
CreateFindingIgnoringGate(tok, auditId, body) ==
  LET a == RequireAuth(tok)
      g == assertAuditAccess(tok, auditId)
      created == a.status = 0 /\ ~TitleRequired(body)
  IN /\ build # "app"
     /\ created => Len(findings) < MaxFindings
     /\ findings' = IF created
                    THEN Append(findings, FindingData(auditId, body))
                    ELSE findings
     /\ resp' =
          IF a.status # 0 THEN Reply("createFinding", a.status, a.msg, tok, 0, {})
          ELSE IF g.status # 0
          THEN Reply("createFinding", g.status, g.msg, tok, auditId, {})
          ELSE IF TitleRequired(body)
          THEN Reply("createFinding", 400, "title is required", tok, auditId, {})
          ELSE Reply("createFinding", 201, "", tok, auditId, {Len(findings) + 1})
     /\ UNCHANGED <<template, call, build, users, tokens, audits, media,
                    disk, evidence, inflight>>

CreateFinding(tok, auditId, body) ==
  LET a == RequireAuth(tok)
      g == assertAuditAccess(tok, auditId)
      created == a.status = 0 /\ g.status = 0 /\ ~TitleRequired(body)
  IN /\ build # "app"
     /\ created => Len(findings) < MaxFindings
     /\ findings' = IF created
                    THEN Append(findings, FindingData(auditId, body))
                    ELSE findings
     /\ resp' =
          IF a.status # 0 THEN Reply("createFinding", a.status, a.msg, tok, 0, {})
          ELSE IF g.status # 0
          THEN Reply("createFinding", g.status, g.msg, tok, auditId, {})
          ELSE IF TitleRequired(body)
          THEN Reply("createFinding", 400, "title is required", tok, auditId, {})
          ELSE Reply("createFinding", 201, "", tok, auditId, {Len(findings) + 1})
     /\ UNCHANGED <<template, call, build, users, tokens, audits, media,
                    disk, evidence, inflight>>

\* -------------------------------------- POST /findings/:findingId/evidence
\* (mutant) the media's audit is not compared with the finding's
SameAuditAlways(findingId, mediaId) == TRUE

\* media.auditId !== finding.auditId
SameAudit(findingId, mediaId) ==
  media[mediaId].auditId = findings[findingId].auditId

\* The handler up to its last await: every check before
\* findingEvidence.create. mediaId 0 stands for a body without mediaId.
\* A request that passes them all is in flight until its create runs.
\* The requests in flight are a bag: several may be alike.
AttachEvidenceBegin(tok, findingId, mediaId) ==
  LET a == RequireAuth(tok)
      auditId == findings[findingId].auditId
      g == assertAuditAccess(tok, auditId)
      early ==
        IF a.status # 0 THEN Reply("attachEvidence", a.status, a.msg, tok, 0, {})
        ELSE IF mediaId = 0
        THEN Reply("attachEvidence", 400, "mediaId is required", tok, 0, {})
        ELSE IF findingId \notin FindingIds
        THEN Reply("attachEvidence", 404, "Finding not found", tok, 0, {})
        ELSE IF g.status # 0
        THEN Reply("attachEvidence", g.status, g.msg, tok, auditId, {})
        ELSE IF mediaId \notin MediaIds
        THEN Reply("attachEvidence", 404, "Media not found", tok, auditId, {})
        ELSE IF ~SameAudit(findingId, mediaId)
        THEN Reply("attachEvidence", 400,
                   "Media must belong to the same audit as the finding",
                   tok, auditId, {})
        ELSE Reply("pending", 0, "", tok, auditId, {})
  IN /\ build # "app"
     /\ IF early.route = "pending"
        THEN /\ BagCardinality(inflight) < MaxReq
             /\ inflight' = inflight (+) SetToBag({[findingId |-> findingId,
                                                    mediaId |-> mediaId,
                                                    tok |-> tok]})
             /\ resp' = resp
        ELSE /\ inflight' = inflight
             /\ resp' = early
     /\ UNCHANGED <<template, call, build, users, tokens, audits, media,
                    disk, findings, evidence>>

\* the FindingEvidence rows of a (findingId, mediaId) pair; the table is a
\* bag of pairs (a row's id and createdAt are read by no route)
EvidenceRows(findingId, mediaId) ==
  CopiesIn([findingId |-> findingId, mediaId |-> mediaId], evidence)

\* (mutant) the table has no unique index on (findingId, mediaId)
FindingEvidenceKeyAbsent(findingId, mediaId) == FALSE

\* FindingEvidence_findingId_mediaId_key: the create throws on a duplicate
FindingEvidenceKeyViolated(findingId, mediaId) ==
  EvidenceRows(findingId, mediaId) > 0

\* findingEvidence.create of a request in flight, and the response
AttachEvidenceCommit(r) ==
  LET auditId == findings[r.findingId].auditId
      dup == FindingEvidenceKeyViolated(r.findingId, r.mediaId)
  IN /\ BagIn(r, inflight)
     /\ ~dup => BagCardinality(evidence) <= MaxFindings * MaxMedia
     /\ evidence' = IF dup THEN evidence
                    ELSE evidence (+) SetToBag({[findingId |-> r.findingId,
                                                 mediaId |-> r.mediaId]})
     /\ inflight' = inflight (-) SetToBag({r})
     /\ resp' = IF dup
                THEN Reply("attachEvidence", 500, "Unique constraint failed",
                           r.tok, auditId, {})
                ELSE Reply("attachEvidence", 201, "", r.tok, auditId, {})
     /\ UNCHANGED <<template, call, build, users, tokens, audits, media,
                    disk, findings>>

\* ------------------------------------------------ GET /audits/:id/evidence
\* The modular copy of the audit routes: requireAuth, then the rows of the
\* Evidence table for the id, with no lookup of the audit and no owner check.
\* No route writes the Evidence table: the list is empty.
ListEvidence(tok, auditId) ==
  LET a == RequireAuth(tok)
  IN /\ build = "server"
     /\ resp' =
          IF a.status # 0 THEN Reply("listEvidence", a.status, a.msg, tok, 0, {})
          ELSE Reply("listEvidence", 200, "", tok, auditId, {})
     /\ UNCHANGED <<template, call, build, users, tokens, audits, media,
                    disk, findings, evidence, inflight>>

\* ------------------------------------------------- failures in a handler
\* An error thrown by the database client or by a library: message is
\* err.message ("" when the error has none) and chars spells the same text,
\* for the tests made on it.
NoMessageError == [message |-> "", chars |-> <<>>]

ConnectError ==
  [message |-> "db down", chars |-> <<"d", "b", " ", "d", "o", "w", "n">>]

UniqueError ==
  [message |-> "Unique constraint",
   chars |-> <<"U", "n", "i", "q", "u", "e", " ",
               "c", "o", "n", "s", "t", "r", "a", "i", "n", "t">>]

\* s.includes(sub)
Includes(s, sub) ==
  \E i \in 0..(Len(s) - Len(sub)) : SubSeq(s, i + 1, i + Len(sub)) = sub

\* the routes of an entrypoint that call the database or a library
FailingRoutes(b) ==
  IF b = "server"
  THEN {"register", "login", "listAudits", "getAudit", "createAudit",
        "uploadMedia", "listMedia", "downloadMedia", "reportUpload",
        "reportPdf", "reportXlsx", "reportDocx", "listEvidence",
        "listFindings", "createFinding", "attachEvidence"}
  ELSE IF b = "part000"
  THEN {"register", "login", "listAudits", "getAudit", "createAudit",
        "uploadMedia", "listFindings", "createFinding", "attachEvidence"}
  ELSE {"register", "login", "listAudits", "getAudit", "createAudit"}

\* the routes registered with preHandler: app.requireAuth
Protected(b, route) ==
  route \notin {"register", "login"} /\ b # "app"

\* the text after || in the catch block of a route
Fallback(route) ==
  CASE route = "register" -> "Failed to register"
    [] route = "login" -> "Failed to login"
    [] route = "createAudit" -> "Failed to create audit"
    [] route = "uploadMedia" -> "Failed to upload media"
    [] route = "listMedia" -> "Failed to list media"
    [] route = "downloadMedia" -> "Failed to download media"
    [] route = "reportUpload" -> "Failed to process report"
    [] route = "listFindings" -> "Failed to list findings"
    [] route = "createFinding" -> "Failed to create finding"
    [] route = "attachEvidence" -> "Failed to attach evidence"
    [] OTHER -> ""

\* the handlers written without try/catch: their errors reach the default
\* error handler of the framework, which no entrypoint replaces
Uncaught(b, route) ==
  \/ route \in {"listAudits", "getAudit", "reportPdf", "reportXlsx",
                "reportDocx", "listEvidence"}
  \/ b = "app" /\ route = "createAudit"

\* the response to a request whose handler throws err
FailureReply(b, route, tok, err) ==
  LET msg == IF err.message # "" THEN err.message ELSE Fallback(route)
  IN IF Uncaught(b, route)
     THEN WithBody(Reply(route, 500, err.message, tok, 0, {}),
                   "statusCode,error,message")
     ELSE IF route = "downloadMedia"
     THEN WithBody(Reply(route, 500, msg, tok, 0, {}),
                   "statusCode,error,message")
     ELSE IF b = "app" /\ route = "register"
             /\ Includes(ToLowerCase(err.chars),
                         <<"u", "n", "i", "q", "u", "e">>)
     THEN Reply(route, 409, "email already exists", tok, 0, {})
     ELSE Reply(route, 500, msg, tok, 0, {})

\* a request whose handler throws at its first database or library call,
\* before it has written anything
HandlerFails(route, tok, err) ==
  /\ route \in FailingRoutes(build)
  /\ Protected(build, route) => RequireAuth(tok).status = 0
  /\ resp' = FailureReply(build, route, tok, err)
  /\ UNCHANGED <<template, call, build, users, tokens, audits, media,
                 disk, findings, evidence, inflight>>

\* ------------------------------ POST /auth/register, one await at a time
\* The handler up to its last await. server.js and the second entrypoint
\* validate and look the email up (findUnique) before they hash and create;
\* auth.routes.js validates and goes on to create. A request that is not
\* answered here waits in flight with the data of its create.
RegisterBegin(email, password, role) ==
  LET o == RegisterFor(build, email, password, role)
      early == o.status = 400 \/ (build # "app" /\ o.status = 409)
  IN /\ IF early
        THEN /\ inflight' = inflight
             /\ resp' = Reply("register", o.status, o.msg, NoToken, 0, {})
        ELSE /\ BagCardinality(inflight) < MaxReq
             /\ inflight' = inflight (+)
                  SetToBag({[email |-> o.email,
                             passwordHash |-> BcryptHash(password),
                             role |-> o.role]})
             /\ resp' = resp
     /\ UNCHANGED <<template, call, build, users, tokens, audits, media,
                    disk, findings, evidence>>

\* prisma.user.create of a request in flight, and the answer: the
\* User_email_key index makes the create throw when a row has the email;
\* auth.routes.js maps that error to 409, the catch blocks of the two
\* entrypoints answer it as any other error.
RegisterCommit(r) ==
  LET dup == UserEmailKeyViolated(r.email)
  IN /\ BagIn(r, inflight)
     /\ ~dup => Len(users) < MaxUsers
     /\ users' = IF dup THEN users
                 ELSE Append(users, [email |-> r.email,
                                     passwordHash |-> r.passwordHash,
                                     role |-> r.role])
     /\ inflight' = inflight (-) SetToBag({r})
     /\ resp' = IF dup
                THEN FailureReply(build, "register", NoToken, UniqueError)
                ELSE Reply("register", 201, "", NoToken, 0, {})
     /\ UNCHANGED <<template, call, build, tokens, audits, media, disk,
                    findings, evidence>>

\* the digits of a row number
Digits == <<"1", "2", "3", "4", "5", "6", "7", "8", "9">>

\* ------------------------------------------------------------ file paths
\* A path is a sequence of characters; "/" is path.sep.
Sep == "/"

\* STORAGE_ROOT, an absolute path already resolved
STORAGE_ROOT == <<"/", "s">>

StartsWith(s, prefix) ==
  Len(prefix) <= Len(s) /\ SubSeq(s, 1, Len(prefix)) = prefix

\* the segments of a path, empty segments dropped
RECURSIVE SplitFrom(_, _, _)
SplitFrom(s, i, cur) ==
  LET done == IF cur = <<>> THEN <<>> ELSE <<cur>>
  IN IF i > Len(s) THEN done
     ELSE IF s[i] = Sep THEN done \o SplitFrom(s, i + 1, <<>>)
     ELSE SplitFrom(s, i + 1, Append(cur, s[i]))

SplitPath(s) == SplitFrom(s, 1, <<>>)

\* "." is dropped, ".." removes the segment before it (none at the root)
RECURSIVE NormalizeFrom(_, _, _)
NormalizeFrom(segs, i, acc) ==
  IF i > Len(segs) THEN acc
  ELSE IF segs[i] = <<".">> THEN NormalizeFrom(segs, i + 1, acc)
  ELSE IF segs[i] = <<".", ".">>
  THEN NormalizeFrom(segs, i + 1,
                     IF acc = <<>> THEN acc ELSE SubSeq(acc, 1, Len(acc) - 1))
  ELSE NormalizeFrom(segs, i + 1, Append(acc, segs[i]))

RECURSIVE JoinSegs(_)
JoinSegs(segs) ==
  IF segs = <<>> THEN <<>>
  ELSE <<Sep>> \o Head(segs) \o JoinSegs(Tail(segs))

IsAbsolute(s) == Len(s) > 0 /\ s[1] = Sep

\* path.resolve(base, rel) for an absolute base
PathResolve(base, rel) ==
  LET segs == NormalizeFrom(IF IsAbsolute(rel) THEN SplitPath(rel)
                            ELSE SplitPath(base) \o SplitPath(rel), 1, <<>>)
  IN IF segs = <<>> THEN <<Sep>> ELSE JoinSegs(segs)

Thrown(message) == [ok |-> FALSE, path |-> <<>>, message |-> message]
Returned(path) == [ok |-> TRUE, path |-> path, message |-> ""]

\* safeJoin of server.js
safeJoin(baseDir, storageKey) ==
  LET resolved == PathResolve(baseDir, storageKey)
      baseResolved == PathResolve(baseDir, <<>>)
  IN IF ~StartsWith(resolved, Append(baseResolved, Sep))
        /\ resolved # baseResolved
     THEN Thrown("Unsafe path")
     ELSE Returned(resolved)

\* safeJoin of the second entrypoint
safeJoinP(root, rel) ==
  LET p == PathResolve(root, rel)
  IN IF ~StartsWith(p, root) THEN Thrown("Invalid path") ELSE Returned(p)

\* app.js and its route modules have no storage helper
SafeJoinFor(b, key) ==
  IF b = "part000" THEN safeJoinP(STORAGE_ROOT, key)
  ELSE safeJoin(STORAGE_ROOT, key)

\* a storage key is joined to the storage root; the file at the path is
\* opened only when safeJoin has returned it
SafeJoinCall ==
  /\ build # "app"
  /\ call.fn = "safeJoin" /\ ~call.done
  /\ call' = [call EXCEPT !.done = TRUE, !.out = SafeJoinFor(build, call.arg)]
  /\ UNCHANGED <<template, build, users, tokens, audits, media, disk, findings,
                 evidence, inflight, resp>>

\* ------------------------------------------- the path of an uploaded file
\* path.normalize on segments: "." is dropped; ".." removes the segment
\* before it, and is kept at the start of a relative path
RECURSIVE NormalizeRelFrom(_, _, _, _)
NormalizeRelFrom(segs, i, acc, abs) ==
  IF i > Len(segs) THEN acc
  ELSE IF segs[i] = <<".">> THEN NormalizeRelFrom(segs, i + 1, acc, abs)
  ELSE IF segs[i] = <<".", ".">>
  THEN NormalizeRelFrom(
         segs, i + 1,
         IF acc # <<>> /\ acc[Len(acc)] # <<".", ".">>
         THEN SubSeq(acc, 1, Len(acc) - 1)
         ELSE IF abs THEN acc ELSE Append(acc, segs[i]),
         abs)
  ELSE NormalizeRelFrom(segs, i + 1, Append(acc, segs[i]), abs)

\* the parts that are not empty, with path.sep between them
RECURSIVE JoinText(_)
JoinText(parts) ==
  IF parts = <<>> THEN <<>>
  ELSE IF Head(parts) = <<>> THEN JoinText(Tail(parts))
  ELSE LET rest == JoinText(Tail(parts))
       IN IF rest = <<>> THEN Head(parts) ELSE Head(parts) \o <<Sep>> \o rest

\* path.join(...parts)
PathJoin(parts) ==
  LET joined == JoinText(parts)
      abs == IsAbsolute(joined)
      segs == NormalizeRelFrom(SplitPath(joined), 1, <<>>, abs)
  IN IF abs THEN (IF segs = <<>> THEN <<Sep>> ELSE JoinSegs(segs))
     ELSE IF segs = <<>> THEN <<".">> ELSE Tail(JoinSegs(segs))

\* the characters the pattern [^a-zA-Z0-9._-] leaves alone
SafeChars ==
  {LowerLetters[i] : i \in DOMAIN LowerLetters}
    \cup {UpperLetters[i] : i \in DOMAIN UpperLetters}
    \cup {Digits[i] : i \in DOMAIN Digits} \cup {"0", ".", "_", "-"}

SafeNameLen == 180

\* safeFilename(name)
safeFilename(name) ==
  LET given == IF name = <<>> THEN <<"f", "i", "l", "e">> ELSE name
      base == [i \in 1..Len(given) |->
                 IF given[i] \in SafeChars THEN given[i] ELSE "_"]
  IN SubSeq(base, 1, Min(Len(base), SafeNameLen))

\* path.extname(name) of a name without path.sep: from the last "." on,
\* nothing when there is no "." or the only "." is the first character
ExtName(name) ==
  LET dots == {i \in DOMAIN name : name[i] = "."}
  IN IF dots = {} THEN <<>>
     ELSE LET last == CHOOSE i \in dots : \A j \in dots : j <= i
          IN IF last = 1 THEN <<>> ELSE SubSeq(name, last, Len(name))

\* kindToSubdir of server.js, on the text of the query parameter
KindToSubdirText(kind) ==
  LET k == ToLowerCase(kind)
  IN IF k = <<"i", "m", "a", "g", "e">>
     THEN <<"i", "m", "a", "g", "e", "s">>
     ELSE IF k = <<"v", "i", "d", "e", "o">> THEN k
     ELSE IF k = <<"a", "u", "d", "i", "o">> THEN k
     ELSE <<"u", "p", "l", "o", "a", "d", "s">>

\* what Date.now(), the random bytes and toISOString put in a key: digits,
\* letters and "-"
Stamp == <<"7">>

UploadBin == <<"u", "p", "l", "o", "a", "d", ".", "b", "i", "n">>

\* String(req.query?.kind || "file")
KindOfQuery(kind) == IF kind = <<>> THEN <<"f", "i", "l", "e">> ELSE kind

\* server.js: the storage key of an upload and the path it is written at
UploadPath(auditId, kind, filename) ==
  LET originalName ==
        safeFilename(IF filename = <<>> THEN UploadBin ELSE filename)
      storageKey ==
        PathJoin(<<auditId, <<"m", "e", "d", "i", "a">>,
                   KindToSubdirText(KindOfQuery(kind)),
                   Stamp \o <<"_">> \o Stamp \o ExtName(originalName)>>)
  IN [storageKey |-> storageKey,
      absPath |-> Returned(PathJoin(<<STORAGE_ROOT, storageKey>>))]

\* the second entrypoint: the kind of the query is a segment of the key, and
\* absPathForKey is safeJoin
UploadPathP(auditId, kind, filename) ==
  LET originalName ==
        safeFilename(IF filename = <<>> THEN UploadBin ELSE filename)
      storageKey ==
        PathJoin(<<auditId, KindOfQuery(kind),
                   Stamp \o <<"_">> \o originalName>>)
  IN [storageKey |-> storageKey,
      absPath |-> safeJoinP(STORAGE_ROOT, storageKey)]

UploadPathFor(b, auditId, kind, filename) ==
  IF b = "part000" THEN UploadPathP(auditId, kind, filename)
  ELSE UploadPath(auditId, kind, filename)

\* the handler computes the key and the path of the file it is to write; it
\* writes the file, and stores the key, only when absPathForKey has returned
UploadPathCall ==
  /\ build # "app"
  /\ call.fn = "uploadPath" /\ ~call.done
  /\ call' = [call EXCEPT !.done = TRUE,
                          !.out = UploadPathFor(build, call.arg.auditId,
                                                call.arg.kind,
                                                call.arg.filename)]
  /\ UNCHANGED <<template, build, users, tokens, audits, media, disk, findings,
                 evidence, inflight, resp>>

\* --------------------------------------------------------- report helpers
\* A status is text (a sequence of characters), as read from a CSV cell.
S_PASS == <<"P", "A", "S", "S">>
S_FAIL == <<"F", "A", "I", "L">>
S_NA == <<"N", "A">>
S_UNKNOWN == <<"U", "N", "K", "N", "O", "W", "N">>

\* normalizeStatus of server.js
normalizeStatus(s) ==
  LET v == ToUpperCase(Trim(s))
  IN IF v = S_PASS \/ v = <<"O", "K">> THEN S_PASS
     ELSE IF v = S_FAIL \/ v = <<"N", "G">> THEN S_FAIL
     ELSE IF v = S_NA \/ v = <<"N", "/", "A">> THEN S_NA
     ELSE IF v # <<>> THEN v
     ELSE S_UNKNOWN

\* normalizeStatus of the second entrypoint: lower-case results
normalizeStatusP(s) ==
  LET v == ToLowerCase(Trim(s))
  IN IF v \in {ToLowerCase(S_PASS), <<"o", "k">>, <<"y", "e", "s">>}
     THEN ToLowerCase(S_PASS)
     ELSE IF v \in {ToLowerCase(S_FAIL), <<"n", "o">>}
     THEN ToLowerCase(S_FAIL)
     ELSE IF v \in {ToLowerCase(S_NA), <<"n", "/", "a">>}
     THEN ToLowerCase(S_NA)
     ELSE ToLowerCase(S_UNKNOWN)

NormalizeStatusFor(b, s) ==
  IF b = "part000" THEN normalizeStatusP(s) ELSE normalizeStatus(s)

NormalizeStatusCall ==
  /\ build # "app"
  /\ call.fn = "normalizeStatus" /\ ~call.done
  /\ call' = [call EXCEPT !.done = TRUE,
                          !.out = NormalizeStatusFor(build, call.arg)]
  /\ UNCHANGED <<template, build, users, tokens, audits, media, disk, findings,
                 evidence, inflight, resp>>

\* An item list is the sequence of the items' statuses.
CountOf(items, status) == Cardinality({i \in DOMAIN items : items[i] = status})

\* computeSummary of server.js: what is not PASS, FAIL or NA counts as unknown
computeSummary(items) ==
  [total |-> Len(items),
   pass |-> CountOf(items, S_PASS),
   fail |-> CountOf(items, S_FAIL),
   na |-> CountOf(items, S_NA),
   unknown |-> Cardinality({i \in DOMAIN items :
                              items[i] \notin {S_PASS, S_FAIL, S_NA}})]

\* computeSummary of the second entrypoint: `summary[k]++` for the key
\* k = it.status || "unknown" when the summary has that key (total, pass,
\* fail, na, unknown), and unknown++ when it has not
S_total == <<"t", "o", "t", "a", "l">>

computeSummaryP(items) ==
  LET Key(i) == IF items[i] = <<>> THEN ToLowerCase(S_UNKNOWN) ELSE items[i]
      Hits(k) == Cardinality({i \in DOMAIN items : Key(i) = k})
      keys == {S_total, ToLowerCase(S_PASS), ToLowerCase(S_FAIL),
               ToLowerCase(S_NA), ToLowerCase(S_UNKNOWN)}
  IN [total |-> Len(items) + Hits(S_total),
      pass |-> Hits(ToLowerCase(S_PASS)),
      fail |-> Hits(ToLowerCase(S_FAIL)),
      na |-> Hits(ToLowerCase(S_NA)),
      unknown |-> Hits(ToLowerCase(S_UNKNOWN))
                    + Cardinality({i \in DOMAIN items : Key(i) \notin keys})]

ComputeSummaryFor(b, items) ==
  IF b = "part000" THEN computeSummaryP(items) ELSE computeSummary(items)

ComputeSummaryCall ==
  /\ build # "app"
  /\ call.fn = "computeSummary" /\ ~call.done
  /\ call' = [call EXCEPT !.done = TRUE,
                          !.out = ComputeSummaryFor(build, call.arg)]
  /\ UNCHANGED <<template, build, users, tokens, audits, media, disk, findings,
                 evidence, inflight, resp>>

\* ---------------------------------------------------------- buildPdfBuffer
\* What the promise of buildPdfBuffer goes through, in order: every
\* doc.text call, doc.end(), and the resolve of the "end" listener, which
\* the document emits once doc.end() has flushed its last chunk.
PdfHeading ==
  <<"title", "Total", "PASS", "FAIL", "N/A", "UNKNOWN", "Items:">>

buildPdfBuffer(title, summary, items) ==
  PdfHeading \o [i \in 1..Len(items) |-> "item"] \o <<"end", "resolve">>

BuildPdfBufferCall ==
  /\ build = "server"
  /\ call.fn = "buildPdfBuffer" /\ ~call.done
  /\ call' = [call EXCEPT !.done = TRUE,
                          !.out = buildPdfBuffer(<<>>,
                                                 computeSummary(call.arg),
                                                 call.arg)]
  /\ UNCHANGED <<template, build, users, tokens, audits, media, disk, findings,
                 evidence, inflight, resp>>

\* ----------------------------------- POST /audits/:auditId/report/upload
\* A parsed CSV is the sequence of its rows [Item, Status, Comment], each
\* cell a text; a report file is absent, a CSV, or a CSV over the 25 MB that
\* readSmallUploadToBuffer accepts.

\* `Row${idx + 1}`
RowId(idx) == <<"R", "o", "w", Digits[idx]>>

\* rows.map((r, idx) => ({idx, id, status, comment}))
ItemsOf(b, rows) ==
  [i \in DOMAIN rows |->
     [idx |-> i,
      id |-> IF rows[i].Item # <<>> THEN rows[i].Item ELSE RowId(i),
      status |-> NormalizeStatusFor(b, rows[i].Status),
      comment |-> rows[i].Comment]]

StatusesOf(items) == [i \in DOMAIN items |-> items[i].status]

\* (faulty variant) the new items are added to those of the prior report
ReportAfterUploadMerged(b, prior, rows) ==
  LET old == IF prior = NoReport THEN <<>> ELSE prior[1].items
      items == old \o ItemsOf(b, rows)
  IN <<[summary |-> ComputeSummaryFor(b, StatusesOf(items)), items |-> items]>>

\* data: { reportJson: { summary, items } }
ReportAfterUpload(b, prior, rows) ==
  LET items == ItemsOf(b, rows)
  IN <<[summary |-> ComputeSummaryFor(b, StatusesOf(items)), items |-> items]>>

\* (mutant) the stored report is replaced before the upload has been read
ReportUploadStoresUnread(tok, auditId, file) ==
  LET a == RequireAuth(tok)
      g == requireAuditOwner(tok, auditId)
      stored == a.status = 0 /\ g.status = 0 /\ file.kind # "none"
  IN /\ build = "server"
     /\ audits' =
          IF stored
          THEN [audits EXCEPT ![auditId].reportJson =
                  ReportAfterUpload(build, audits[auditId].reportJson, file.rows)]
          ELSE audits
     /\ resp' =
          IF a.status # 0 THEN Reply("reportUpload", a.status, a.msg, tok, 0, {})
          ELSE IF g.status # 0
          THEN Reply("reportUpload", g.status, g.msg, tok, auditId, {})
          ELSE IF file.kind = "none"
          THEN Reply("reportUpload", 400, "No file uploaded", tok, auditId, {})
          ELSE IF file.kind = "large"
          THEN Reply("reportUpload", 500,
                     "Upload too large for report parsing", tok, auditId, {})
          ELSE Reply("reportUpload", 200, "", tok, auditId, {auditId})
     /\ UNCHANGED <<template, call, build, users, tokens, media, disk,
                    findings, evidence, inflight>>

ReportUpload(tok, auditId, file) ==
  LET a == RequireAuth(tok)
      g == requireAuditOwner(tok, auditId)
      stored == a.status = 0 /\ g.status = 0 /\ file.kind = "csv"
  IN /\ build = "server"
     /\ audits' =
          IF stored
          THEN [audits EXCEPT ![auditId].reportJson =
                  ReportAfterUpload(build, audits[auditId].reportJson, file.rows)]
          ELSE audits
     /\ resp' =
          IF a.status # 0 THEN Reply("reportUpload", a.status, a.msg, tok, 0, {})
          ELSE IF g.status # 0
          THEN Reply("reportUpload", g.status, g.msg, tok, auditId, {})
          ELSE IF file.kind = "none"
          THEN Reply("reportUpload", 400, "No file uploaded", tok, auditId, {})
          ELSE IF file.kind = "large"
          THEN Reply("reportUpload", 500,
                     "Upload too large for report parsing", tok, auditId, {})
          ELSE Reply("reportUpload", 200, "", tok, auditId, {auditId})
     /\ UNCHANGED <<template, call, build, users, tokens, media, disk,
                    findings, evidence, inflight>>

\* ---------------- POST /audits/:auditId/report/upload, one await at a time
\* The handler up to prisma.audit.update: the gate, the file part, the
\* parsing, and the items and the summary computed from the request's own
\* rows. A request that is not answered here waits in flight with the
\* reportJson it is about to write.
ReportUploadBegin(tok, auditId, file) ==
  LET a == RequireAuth(tok)
      g == requireAuditOwner(tok, auditId)
      early ==
        IF a.status # 0 THEN Reply("reportUpload", a.status, a.msg, tok, 0, {})
        ELSE IF g.status # 0
        THEN Reply("reportUpload", g.status, g.msg, tok, auditId, {})
        ELSE IF file.kind = "none"
        THEN Reply("reportUpload", 400, "No file uploaded", tok, auditId, {})
        ELSE IF file.kind = "large"
        THEN Reply("reportUpload", 500,
                   "Upload too large for report parsing", tok, auditId, {})
        ELSE Reply("pending", 0, "", tok, auditId, {})
  IN /\ build = "server"
     /\ IF early.route = "pending"
        THEN /\ BagCardinality(inflight) < MaxReq
             /\ inflight' = inflight (+)
                  SetToBag({[auditId |-> auditId, tok |-> tok,
                             report |-> ReportAfterUpload(build, NoReport,
                                                          file.rows)]})
             /\ resp' = resp
        ELSE /\ inflight' = inflight
             /\ resp' = early
     /\ UNCHANGED <<template, call, build, users, tokens, audits, media,
                    disk, findings, evidence>>

\* (mutant) the update writes the items and leaves a stored summary alone
ReportWrittenItemsOnly(prior, report) ==
  IF prior = NoReport THEN report
  ELSE <<[summary |-> prior[1].summary, items |-> report[1].items]>>

\* prisma.audit.update({ data: { reportJson: { summary, items } } }): the
\* column is set to the one value in one statement
ReportWritten(prior, report) == report

\* the update of a request in flight, and its answer
ReportUploadCommit(r) ==
  /\ BagIn(r, inflight)
  /\ audits' = [audits EXCEPT ![r.auditId].reportJson =
                  ReportWritten(@, r.report)]
  /\ inflight' = inflight (-) SetToBag({r})
  /\ resp' = Reply("reportUpload", 200, "", r.tok, r.auditId, {r.auditId})
  /\ UNCHANGED <<template, call, build, users, tokens, media, disk,
                 findings, evidence>>

\* ------------------------------ GET /audits/:auditId/report.pdf and .xlsx
\* a document built from audit.reportJson, or from an empty report
ReportDocument(route, tok, auditId) ==
  LET a == RequireAuth(tok)
      g == requireAuditOwner(tok, auditId)
  IN IF a.status # 0 THEN Reply(route, a.status, a.msg, tok, 0, {})
     ELSE IF g.status # 0 THEN Reply(route, g.status, g.msg, tok, auditId, {})
     ELSE WithBody(Reply(route, 200, "", tok, auditId, {auditId}), "file")

ReportPdf(tok, auditId) ==
  /\ build = "server"
  /\ resp' = ReportDocument("reportPdf", tok, auditId)
  /\ UNCHANGED <<template, call, build, users, tokens, audits, media, disk,
                 findings, evidence, inflight>>

ReportXlsx(tok, auditId) ==
  /\ build = "server"
  /\ resp' = ReportDocument("reportXlsx", tok, auditId)
  /\ UNCHANGED <<template, call, build, users, tokens, audits, media, disk,
                 findings, evidence, inflight>>

\* ---------------------------------------- GET /audits/:auditId/report.docx
\* (faulty variant) a missing template is not tested for: a document is
\* rendered all the same
DocxOutcomeNoTemplateTest(tok, auditId) ==
  ReportDocument("reportDocx", tok, auditId)

\* template: the file at TEMPLATE_PATH exists
DocxOutcome(tok, auditId) ==
  LET a == RequireAuth(tok)
      g == requireAuditOwner(tok, auditId)
  IN IF a.status # 0 THEN Reply("reportDocx", a.status, a.msg, tok, 0, {})
     ELSE IF g.status # 0
     THEN Reply("reportDocx", g.status, g.msg, tok, auditId, {})
     ELSE IF ~template
     THEN Reply("reportDocx", 400, "Missing DOCX template", tok, auditId, {})
     ELSE WithBody(Reply("reportDocx", 200, "", tok, auditId, {auditId}),
                   "file")

ReportDocx(tok, auditId) ==
  /\ build = "server"
  /\ resp' = DocxOutcome(tok, auditId)
  /\ UNCHANGED <<template, call, build, users, tokens, audits, media, disk,
                 findings, evidence, inflight>>

\* the template file is removed from, or put back at, TEMPLATE_PATH
TemplateChanged ==
  /\ template' = ~template
  /\ UNCHANGED <<call, build, users, tokens, audits, media, disk, findings,
                 evidence, inflight, resp>>

\* ----------------------------------------------------- the inputs of Spec
\* role "" stands for a body without a role
RoleInputs == {"", "admin"}

Emails == {<<"a">>, <<"b">>}

\* an id of every row there is, and one id of no row
ReqAuditIds == 1..(Len(audits) + 1)
ReqMediaIds == 0..(Len(media) + 1)
ReqFindingIds == 1..(Len(findings) + 1)

Queries == {<<>>, <<1>>}

\* the audit routes and the read routes behind the ownership gates
Next ==
  \/ \E e \in Emails, r \in RoleInputs : Register(e, "p", r)
  \/ \E e \in Emails : Login(e, "p")
  \/ Health
  \/ \E tok \in Callers : AuthMe(tok)
  \/ \E tok \in Callers, take \in Queries, skip \in Queries :
       ListAudits(tok, take, skip)
  \/ \E tok \in Callers, a \in ReqAuditIds : GetAudit(tok, a)
  \/ \E tok \in Callers : CreateAudit(tok)
  \/ \E tok \in Callers : CreateAuditRoutes(tok)
  \/ \E tok \in Callers, a \in ReqAuditIds : ListMedia(tok, a)
  \/ \E tok \in Callers, a \in ReqAuditIds : ListFindings(tok, a)
  \/ \E tok \in Callers, a \in ReqAuditIds : ListEvidence(tok, a)

Spec == Init /\ [][Next]_vars

\* one user, their audits, and the findings, media and evidence links
FindingBody == [title |-> JsString("t"), severity |-> JsUndefined]

NextEvidence ==
  \/ Register(<<"a">>, "p", "")
  \/ Login(<<"a">>, "p")
  \/ \E tok \in tokens : CreateAudit(tok)
  \/ \E tok \in tokens, a \in AuditIds : UploadMedia(tok, a, "image", 1, "truncate", "none")
  \/ \E tok \in tokens, a \in AuditIds : CreateFinding(tok, a, FindingBody)
  \/ \E tok \in tokens, a \in AuditIds : ListFindings(tok, a)
  \/ \E tok \in tokens, a \in AuditIds : ListEvidence(tok, a)
  \/ \E tok \in tokens, f \in FindingIds, m \in ReqMediaIds :
       AttachEvidenceBegin(tok, f, m)
  \/ \E r \in BagToSet(inflight) : AttachEvidenceCommit(r)

SpecEvidence == Init /\ [][NextEvidence]_vars

\* uploads around the ceiling; size 0 is a request without a file part
UploadSizes == {0, MAX_UPLOAD_BYTES, MAX_UPLOAD_BYTES + 1}

NextUpload ==
  \/ Register(<<"a">>, "p", "")
  \/ Login(<<"a">>, "p")
  \/ \E tok \in tokens : CreateAudit(tok)
  \/ \E tok \in tokens \cup {NoToken}, a \in ReqAuditIds,
        kind \in {"image", "file"}, size \in UploadSizes,
        mode \in OverLimitModes :
       UploadMedia(tok, a, kind, size, mode, "none")
  \/ \E tok \in tokens \cup {NoToken}, a \in ReqAuditIds : ListMedia(tok, a)
  \/ \E tok \in tokens \cup {NoToken}, m \in ReqMediaIds : DownloadMedia(tok, m)

SpecUpload == Init /\ [][NextUpload]_vars

\* uploads within the ceiling, removals of stored files, downloads
NextDownload ==
  \/ \E e \in Emails : Register(e, "p", "")
  \/ \E e \in Emails : Login(e, "p")
  \/ \E tok \in tokens : CreateAudit(tok)
  \/ \E tok \in tokens, a \in AuditIds :
       UploadMedia(tok, a, "image", MAX_UPLOAD_BYTES, "truncate", "none")
  \/ \E tok \in Callers, m \in ReqMediaIds : DownloadMedia(tok, m)
  \/ \E k \in Files : FileRemoved(k)

SpecDownload == Init /\ [][NextDownload]_vars

\* --------------------------------------------- the inputs of SpecFindings
\* titles absent, null, empty, blank, text, and of other types; severities
\* absent, null and given
FindingTitles ==
  {JsUndefined, JsNull, JsString(""), JsString(" "), JsString("t"),
   JsNumber("0"), JsNumber("7"), JsBoolean("true")}

FindingSeverities == {JsUndefined, JsNull, JsString("high")}

FindingBodies ==
  [title : FindingTitles, severity : {JsUndefined}]
    \cup [title : {JsString("t")}, severity : FindingSeverities]

NextFindings ==
  \/ Register(<<"a">>, "p", "")
  \/ Login(<<"a">>, "p")
  \/ \E tok \in tokens : CreateAudit(tok)
  \/ \E tok \in tokens \cup {NoToken}, a \in ReqAuditIds,
        body \in FindingBodies :
       CreateFinding(tok, a, body)
  \/ \E tok \in tokens \cup {NoToken}, a \in ReqAuditIds :
       ListFindings(tok, a)

SpecFindings == Init /\ [][NextFindings]_vars

\* ---------------------------------------------- the inputs of SpecFailure
Errors == {NoMessageError, ConnectError, UniqueError}

AllRoutes == UNION {FailingRoutes(b) : b \in Builds}

NextFailure ==
  \/ \E r \in RoleInputs : Register(<<"a">>, "p", r)
  \/ Login(<<"a">>, "p")
  \/ \E route \in AllRoutes, tok \in tokens \cup {NoToken}, err \in Errors :
       HandlerFails(route, tok, err)

SpecFailure == Init /\ [][NextFailure]_vars

\* ------------------------------------------------ the inputs of SpecRoles
\* roles as a client may send them: absent, the two of the data model, and
\* another word; none has blanks around it, so that trim returns it as it is
AnyRoleInputs == RoleInputs \cup {"auditor", "root"}

NextRoles ==
  \/ \E e \in Emails, r \in AnyRoleInputs : Register(e, "p", r)
  \/ \E e \in Emails : Login(e, "p")
  \/ \E tok \in tokens : AuthMe(tok)

SpecRoles == Init /\ [][NextRoles]_vars

\* ----------------------------------------------- the inputs of SpecStore
\* uploads that succeed, that fail while the file is written, and that fail
\* when the row is inserted
StoreSizes == {0, 1, MAX_UPLOAD_BYTES + 1}

NextStore ==
  \/ Register(<<"a">>, "p", "")
  \/ Login(<<"a">>, "p")
  \/ \E tok \in tokens : CreateAudit(tok)
  \/ \E tok \in tokens, a \in AuditIds, size \in StoreSizes,
        mode \in OverLimitModes, fault \in UploadFaults :
       UploadMedia(tok, a, "image", size, mode, fault)

SpecStore == Init /\ [][NextStore]_vars

\* --------------------------------------------- the inputs of SpecRegister
\* emails that normalize to the same string, and one that does not
RacingEmails == {<<"a">>, <<" ", "A">>, <<"b">>}

NextRegister ==
  \/ \E e \in RacingEmails, p \in {"", "p"} : RegisterBegin(e, p, "")
  \/ \E r \in BagToSet(inflight) : RegisterCommit(r)
  \/ \E e \in RacingEmails : Login(e, "p")

SpecRegister == Init /\ [][NextRegister]_vars

\* ------------------------------------------------- the inputs of SpecAuth
RawEmails ==
  {<<>>, <<" ">>, <<"a">>, <<" ", "A">>, <<"b">>, <<"B", " ">>}

Passwords == {"", "p", "q"}

NextAuth ==
  \/ \E e \in RawEmails, p \in Passwords, r \in RoleInputs : Register(e, p, r)
  \/ \E e \in RawEmails, p \in Passwords : Login(e, p)

SpecAuth == Init /\ [][NextAuth]_vars

\* ------------------------------------------------ the inputs of SpecCalc
MaxKeyLen == 5

PathChars == {Sep, ".", "s", "x"}

RECURSIVE SeqsUpTo(_, _)
SeqsUpTo(S, n) ==
  IF n = 0 THEN {<<>>}
  ELSE LET shorter == SeqsUpTo(S, n - 1)
       IN shorter \cup {Append(q, c) : q \in shorter, c \in S}

StorageKeys == SeqsUpTo(PathChars, MaxKeyLen)

\* cells of the Status column
StatusCells ==
  {<<>>, <<" ">>, <<"p", "a", "s", "s">>, <<"P", "a", "s", "s">>, S_PASS,
   <<" ", "o", "k">>, <<"O", "K", " ">>, <<"y", "e", "s">>, <<"Y", "e", "s">>,
   <<"f", "a", "i", "l">>, S_FAIL, <<"n", "o">>, <<"N", "G">>,
   <<"n", "a">>, S_NA, <<"n", "/", "a">>, <<"n", "-", "a">>,
   <<"t", "b", "d">>, S_UNKNOWN}

\* statuses of items: the four of the summary, a value normalizeStatus
\* passes through, and the lower-case words of the second entrypoint
MaxItems == 3

ItemStatuses ==
  {S_PASS, S_FAIL, S_NA, S_UNKNOWN, <<"Y", "E", "S">>, ToLowerCase(S_PASS),
   S_total}

ItemLists == SeqsUpTo(ItemStatuses, MaxItems)

\* take and skip as the query gives them: absent, or a whole number
TakeQueries == {<<>>, <<-1>>, <<0>>, <<1>>, <<20>>, <<100>>, <<101>>}
SkipQueries == {<<>>, <<-1>>, <<0>>, <<1>>}

\* the id of the audit uploaded to; kinds and file names as a client may
\* send them: absent, plain, and with ".." and path.sep in them
AuditA == <<"a">>

KindQueries ==
  {<<>>, <<"i", "m", "a", "g", "e">>, <<"I", "m", "a", "g", "e">>,
   <<"d", "o", "c">>, <<".", ".">>, <<".", ".", "/", "b">>,
   <<".", ".", "/", ".", ".", "/", "s", "x">>, <<"/", "b">>}

FileNames ==
  {<<>>, <<"a", ".", "b">>, <<".", ".", "/", "x">>, <<".", ".">>,
   <<"/", "e", "t", "c">>}

CalcInputs ==
  {Asked("safeJoin", key) : key \in StorageKeys}
    \cup {Asked("listAuditsQuery", [take |-> t, skip |-> k]) :
             t \in TakeQueries, k \in SkipQueries}
    \cup {Asked("computeSummary", items) : items \in ItemLists}
    \cup {Asked("normalizeStatus", cell) : cell \in StatusCells}
    \cup {Asked("buildPdfBuffer", items) : items \in ItemLists}
    \cup {Asked("uploadPath",
                 [auditId |-> AuditA, kind |-> k, filename |-> f]) :
             k \in KindQueries, f \in FileNames}

InitCalc == InitStore /\ call \in CalcInputs

NextCalc ==
  \/ SafeJoinCall
  \/ NormalizeStatusCall
  \/ ComputeSummaryCall
  \/ ListAuditsQueryCall
  \/ BuildPdfBufferCall
  \/ UploadPathCall

SpecCalc == InitCalc /\ [][NextCalc]_vars

\* ----------------------------------------------- the inputs of SpecReport
Rack1 == <<"R", "a", "c", "k", "-", "1">>

CsvRows ==
  {<<>>,
   <<[Item |-> Rack1, Status |-> <<"P", "a", "s", "s">>,
      Comment |-> <<"o", "k">>]>>,
   <<[Item |-> <<>>, Status |-> <<"f", "a", "i", "l">>, Comment |-> <<>>],
     [Item |-> Rack1, Status |-> <<>>, Comment |-> <<>>]>>}

ReportFiles ==
  {[kind |-> "none", rows |-> <<>>], [kind |-> "large", rows |-> <<>>]}
    \cup {[kind |-> "csv", rows |-> rows] : rows \in CsvRows}

NextReport ==
  \/ Register(<<"a">>, "p", "")
  \/ Login(<<"a">>, "p")
  \/ \E tok \in tokens : CreateAudit(tok)
  \/ \E tok \in tokens \cup {NoToken}, a \in ReqAuditIds, file \in ReportFiles :
       ReportUpload(tok, a, file)
  \/ \E tok \in tokens \cup {NoToken}, a \in ReqAuditIds : ReportPdf(tok, a)
  \/ \E tok \in tokens \cup {NoToken}, a \in ReqAuditIds : ReportXlsx(tok, a)
  \/ \E tok \in tokens \cup {NoToken}, a \in ReqAuditIds : ReportDocx(tok, a)
  \/ TemplateChanged

SpecReport == Init /\ [][NextReport]_vars

\* ------------------------------------------- the inputs of SpecReportRace
NextReportRace ==
  \/ Register(<<"a">>, "p", "")
  \/ Login(<<"a">>, "p")
  \/ \E tok \in tokens : CreateAudit(tok)
  \/ \E tok \in tokens \cup {NoToken}, a \in ReqAuditIds, file \in ReportFiles :
       ReportUploadBegin(tok, a, file)
  \/ \E r \in BagToSet(inflight) : ReportUploadCommit(r)

SpecReportRace == Init /\ [][NextReportRace]_vars

\* ------------------------------------------------ the inputs of SpecGates
\* every route that writes, called with and without a token, by the owner
\* and by another user, on audits, findings and media that exist or not
OneRowCsv == [kind |-> "csv", rows |-> <<[Item |-> Rack1,
                                          Status |-> <<"o", "k">>,
                                          Comment |-> <<>>]>>]

\* the first user registered creates the audits; the second and a caller
\* without token are turned away at the gates; the requests come one at a
\* time
GateCallers == tokens \cup {NoToken}

NextGates ==
  \/ \E e \in Emails : Register(e, "p", "")
  \/ \E e \in Emails : Login(e, "p")
  \/ \E tok \in {t \in GateCallers : t.sub <= 1} : CreateAudit(tok)
  \/ \E tok \in GateCallers, a \in ReqAuditIds :
       UploadMedia(tok, a, "image", 1, "truncate", "none")
  \/ \E tok \in GateCallers, a \in ReqAuditIds :
       CreateFinding(tok, a, FindingBody)
  \/ \E tok \in GateCallers, f \in FindingIds, m \in MediaIds :
       inflight = EmptyBag /\ AttachEvidenceBegin(tok, f, m)
  \/ \E r \in BagToSet(inflight) : AttachEvidenceCommit(r)
  \/ \E tok \in GateCallers, a \in ReqAuditIds :
       ReportUpload(tok, a, OneRowCsv)

SpecGates == Init /\ [][NextGates]_vars

\* ========================================================= claims on Spec
\* the routes that call requireAuditOwner or assertAuditAccess
GatedRoutes ==
  {"getAudit", "uploadMedia", "listMedia", "downloadMedia", "listFindings",
   "createFinding", "attachEvidence"}

\* the audit is owned by a user, and not by the token's user
OwnedByAnother(tok, auditId) ==
  /\ auditId \in AuditIds
  /\ audits[auditId].userId # 0
  /\ audits[auditId].userId # tok.sub

C3_ListOnlyOwnAudits ==
  (resp.route = "listAudits" /\ resp.tok.role # "admin")
    => \A a \in resp.rows : audits[a].userId = resp.tok.sub

\* C4: every route but GET /health, POST /auth/register and POST /auth/login
\* answers 401 to a request without a valid token.
C4_UnauthenticatedIs401 ==
  (/\ resp.route \notin {"none", "health", "register", "login"}
   /\ resp.tok.kind # "valid")
    => resp.status = 401

\* C18: an audit created through POST /audits has as userId the sub of the
\* token that created it, never NULL, and no operation changes the userId
\* of an audit that exists.
C18_OwnerSetOnceAtCreation ==
  [][/\ Len(audits') >= Len(audits)
     /\ \A a \in AuditIds : audits'[a].userId = audits[a].userId
     /\ \A a \in (1..Len(audits')) \ AuditIds :
          /\ resp'.route = "createAudit"
          /\ resp'.tok.kind = "valid"
          /\ audits'[a].userId = resp'.tok.sub
          /\ audits'[a].userId # 0]_vars

\* the outcome the ownership rule gives: 404 for an absent audit, access (0)
\* for an admin, else access exactly for the audit's owner and 403 otherwise
OwnershipRule(tok, auditId) ==
  IF auditId \notin AuditIds THEN 404
  ELSE IF tok.role = "admin" THEN 0
  ELSE IF audits[auditId].userId = tok.sub THEN 0
  ELSE 403

\* C19: for every caller and audit id, requireAuditOwner and each
\* assertAuditAccess give the same outcome, the one of the ownership rule.
C19_OneOwnershipDecision ==
  \A tok \in tokens, a \in ReqAuditIds :
    /\ requireAuditOwner(tok, a).status = OwnershipRule(tok, a)
    /\ assertAuditAccess(tok, a).status = OwnershipRule(tok, a)
    /\ assertAuditAccessRoutes(tok, a).status = OwnershipRule(tok, a)

\* ================================================= claims on SpecEvidence
ChildRoutes ==
  {"uploadMedia", "listMedia", "downloadMedia", "listFindings",
   "createFinding", "attachEvidence", "listEvidence"}

\* C2: a request on a child resource of an audit succeeds only for an admin
\* or for the user the audit belongs to.
C2_ChildAccessThroughOwner ==
  (resp.route \in ChildRoutes /\ resp.status \in {200, 201})
    => /\ resp.audit \in AuditIds
       /\ resp.tok.kind = "valid"
       /\ \/ resp.tok.role = "admin"
          \/ audits[resp.audit].userId = resp.tok.sub

\* every FindingEvidence row links a finding and a media of one audit
SameAuditLinks ==
  \A e \in BagToSet(evidence) :
    findings[e.findingId].auditId = media[e.mediaId].auditId

\* C8: every FindingEvidence row links a Finding and a MediaFile with the
\* same auditId, and an attach request of a caller with access to the
\* finding's audit whose media belongs to another audit is answered 400 and
\* creates no row (and no create is left pending).
C8_EvidenceWithinOneAudit ==
  [][/\ SameAuditLinks'
     /\ \A tok \in tokens, f \in FindingIds, m \in MediaIds :
          (/\ media[m].auditId # findings[f].auditId
           /\ assertAuditAccess(tok, findings[f].auditId).status = 0
           /\ AttachEvidenceBegin(tok, f, m))
            => /\ resp'.status = 400
               /\ evidence' = evidence
               /\ inflight' = inflight]_vars

\* a media of another audit has been refused while a link exists
C8_Witness ==
  /\ resp.route = "attachEvidence"
  /\ resp.status = 400
  /\ resp.msg = "Media must belong to the same audit as the finding"
  /\ BagCardinality(evidence) >= 1

\* C9: whatever the interleaving of the attach requests of one
\* (findingId, mediaId) pair, no pair ever has two rows; once a request's
\* create has run the pair has exactly one row; the create is answered 201
\* only when the pair had no row, and otherwise fails (500) and adds none.
C9_OneRowPerPair ==
  [][/\ \A f \in FindingIds, m \in MediaIds : EvidenceRows(f, m)' <= 1
     /\ \A r \in BagToSet(inflight) :
          AttachEvidenceCommit(r)
            => /\ EvidenceRows(r.findingId, r.mediaId)' = 1
               /\ (resp'.status = 201) <=> (EvidenceRows(r.findingId, r.mediaId) = 0)
               /\ resp'.status # 201 => (resp'.status = 500 /\ evidence' = evidence)
    ]_vars

\* two requests of one pair were in flight together, and the second create
\* has failed on the row of the first
C9_Witness ==
  /\ resp.route = "attachEvidence"
  /\ resp.status = 500
  /\ BagCardinality(evidence) = 1
  /\ BagCardinality(inflight) = 0

\* =================================================== claims on SpecUpload
\* C10: no MediaFile row is created for an upload whose file is larger than
\* MAX_UPLOAD_BYTES.
C10_OversizedUploadCreatesNoRow ==
  \A m \in MediaIds : media[m].sent <= MAX_UPLOAD_BYTES

\* ================================================= claims on SpecDownload
\* C17: every error response has the JSON shape {ok: false, message} and
\* every JSON success response has ok: true.
C17_ResponseShape ==
  /\ resp.status >= 400 => resp.body = OkFalseMessage
  /\ (resp.status \in 200..399 /\ resp.body \notin {"stream", "file"})
       => resp.body = OkTrue

\* C11: a download by a caller who has access to the media's audit, of a
\* media whose row exists and whose file is absent from the disk, is
\* answered 404 (and so never 500).
C11_MissingFileIs404 ==
  [][\A tok \in tokens, m \in MediaIds :
       (/\ media[m].storageKey \notin Files
        /\ requireAuditOwner(tok, media[m].auditId).status = 0
        /\ DownloadMedia(tok, m))
         => resp'.status = 404]_vars

\* the owner has asked for a media whose file has been removed
C11_Witness ==
  /\ resp.route = "downloadMedia"
  /\ resp.status = 404
  /\ resp.msg = "file missing on disk"
  /\ resp.audit \in AuditIds
  /\ audits[resp.audit].userId = resp.tok.sub

\* ===================================================== claims on SpecAuth
GivenPasswords == Passwords \ {""}

\* C5: a register that gives an email and a password, and whose email,
\* trimmed and lowercased, is the email of a user row (one an earlier register
\* created), is answered 409, creates no user row and leaves every existing
\* row as it was.
C5_DuplicateRegisterConflict ==
  [][\A e \in RawEmails \ {<<>>}, p \in GivenPasswords, r \in RoleInputs :
       (/\ resp'.route = "register"
        /\ FindUserByEmail(CleanEmail(e)) # 0
        /\ Register(e, p, r))
         => (resp'.status = 409 /\ users' = users)]_vars

\* a duplicate register has been answered while a user row exists
C5_Witness ==
  /\ resp.route = "register"
  /\ resp.status = 409
  /\ Len(users) >= 1

\* C6: a login with the password of a registered user and an email that
\* normalizes to that user's email (any letter case, surrounding blanks)
\* succeeds, and its token's sub is the id of that user.
C6_RegisterThenLogin ==
  [][\A e \in RawEmails \ {<<>>}, p \in GivenPasswords :
       LET u == FindUserByEmail(CleanEmail(e))
       IN (/\ resp'.route = "login"
           /\ u # 0
           /\ users[u].passwordHash = BcryptHash(p)
           /\ Login(e, p))
            => /\ resp'.status = 200
               /\ resp'.tok.kind = "valid"
               /\ resp'.tok.sub = u
               /\ resp'.tok \in tokens']_vars

\* a login has succeeded for the second registered user
C6_Witness ==
  /\ resp.route = "login"
  /\ resp.status = 200
  /\ resp.tok.sub = 2
  /\ Len(users) = 2

\* the status and message a login request is answered with
LoginReply(email, password) ==
  LET o == LoginFor(build, email, password)
  IN <<o.status, o.msg>>

\* C7: in every store, the login response (status, message) for an email
\* with no user row equals the response for a registered email with a
\* wrong password, and it is a 401.
C7_LoginDoesNotRevealUsers ==
  \A e1 \in RawEmails, e2 \in RawEmails, p1 \in GivenPasswords,
     p2 \in GivenPasswords :
    LET u1 == FindUserByEmail(CleanEmail(e1))
        u2 == FindUserByEmail(CleanEmail(e2))
    IN (/\ CleanEmail(e1) # <<>>
        /\ CleanEmail(e2) # <<>>
        /\ u1 = 0
        /\ u2 # 0
        /\ ~BcryptCompare(p2, users[u2].passwordHash))
         => /\ LoginReply(e1, p1) = LoginReply(e2, p2)
            /\ LoginReply(e1, p1)[1] = 401

\* a login has been refused while one email is registered and another is not
C7_Witness ==
  /\ resp.route = "login"
  /\ resp.status = 401
  /\ Len(users) = 1


\* ===================================================== claims on SpecCalc
\* the segments of `inner` begin with all the segments of `outer`
SegmentsWithin(outer, inner) ==
  LET o == SplitPath(outer)
      i == SplitPath(inner)
  IN Len(o) <= Len(i) /\ SubSeq(i, 1, Len(o)) = o

\* C12: safeJoin returns a path only when the path is the storage root or
\* lies inside the storage root directory: a path it returns has the
\* segments of the root as its first segments.
C12_SafeJoinStaysInRoot ==
  (call.fn = "safeJoin" /\ call.done /\ call.out.ok)
    => SegmentsWithin(STORAGE_ROOT, call.out.path)

\* what the status table maps a cell to, letter case and surrounding blanks
\* of the cell set aside
StatusOfCell(cell) ==
  LET v == ToLowerCase(Trim(cell))
  IN IF v \in {<<"p", "a", "s", "s">>, <<"o", "k">>, <<"y", "e", "s">>}
     THEN S_PASS
     ELSE IF v \in {<<"f", "a", "i", "l">>, <<"n", "o">>} THEN S_FAIL
     ELSE IF v \in {<<"n", "a">>, <<"n", "-", "a">>} THEN S_NA
     ELSE IF v = <<>> THEN S_UNKNOWN
     ELSE ToUpperCase(Trim(cell))

\* C14: normalizeStatus maps, whatever the letter case, pass/ok/yes to PASS,
\* fail/no to FAIL, na/n-a to NA, the empty value to UNKNOWN and any other
\* value to that value in upper case.
C14_NormalizeStatusTable ==
  (call.fn = "normalizeStatus" /\ call.done)
    => call.out = StatusOfCell(call.arg)

\* C13: for an item list of length N, computeSummary returns total = N and
\* pass, fail, na, unknown equal to the numbers of items whose status is
\* PASS, FAIL, NA, UNKNOWN, and the four counts add up to N.
C13_SummaryCounts ==
  (call.fn = "computeSummary" /\ call.done)
    => LET items == call.arg
           summary == call.out
       IN /\ summary.total = Len(items)
          /\ summary.pass = CountOf(items, S_PASS)
          /\ summary.fail = CountOf(items, S_FAIL)
          /\ summary.na = CountOf(items, S_NA)
          /\ summary.unknown = CountOf(items, S_UNKNOWN)
          /\ summary.pass + summary.fail + summary.na + summary.unknown
               = Len(items)

\* =================================================== claims on SpecReport
\* C15: a report upload that succeeds leaves every audit as it was except
\* the reportJson of the audit uploaded to, which becomes the {summary,
\* items} of the uploaded CSV alone; GET report.pdf, report.xlsx and
\* report.docx change no audit.
C15_UploadReplacesReport ==
  [][/\ \A tok \in tokens, a \in AuditIds, file \in ReportFiles :
          (ReportUpload(tok, a, file) /\ resp'.status = 200)
            => LET items == ItemsOf(build, file.rows)
                   summary == ComputeSummaryFor(build, StatusesOf(items))
               IN audits' = [audits EXCEPT ![a].reportJson =
                               <<[summary |-> summary, items |-> items]>>]
     /\ \A tok \in tokens \cup {NoToken}, a \in ReqAuditIds :
          (ReportPdf(tok, a) \/ ReportXlsx(tok, a) \/ ReportDocx(tok, a))
            => audits' = audits]_vars

\* an upload has succeeded on an audit and left a report of two items
C15_Witness ==
  /\ resp.route = "reportUpload"
  /\ resp.status = 200
  /\ audits[resp.audit].reportJson # NoReport
  /\ Len(audits[resp.audit].reportJson[1].items) = 2
  /\ audits[resp.audit].userId = resp.tok.sub

\* C16: GET report.docx by a caller with access to the audit is answered
\* 400 whenever the template file is absent, and then renders no document.
C16_MissingTemplateIs400 ==
  [][\A tok \in tokens, a \in AuditIds :
       (/\ ~template
        /\ requireAuditOwner(tok, a).status = 0
        /\ ReportDocx(tok, a))
         => (resp'.status = 400 /\ resp'.rows = {})]_vars

\* the owner has asked for the document while the template was absent
C16_Witness ==
  /\ resp.route = "reportDocx"
  /\ resp.status = 400
  /\ ~template
  /\ audits[resp.audit].userId = resp.tok.sub

\* C20: the take GET /audits passes to the query is 20 when the parameter
\* is absent and never exceeds 100, and the skip it passes is never negative.
C20_TakeAndSkipBounded ==
  (call.fn = "listAuditsQuery" /\ call.done)
    => /\ call.arg.take = <<>> => call.out.take = 20
       /\ call.out.take <= 100
       /\ call.out.skip >= 0
\* ================================================= claims on SpecFindings
\* C21: for a caller with access to the audit, POST /audits/:auditId/findings
\* with a title that is absent, empty or not a string is answered 400 and
\* leaves the findings as they were; with a non-empty string title it adds
\* exactly one row, of that audit, whose severity is "medium" when the body
\* has no severity.
C21_TitleRequiredSeverityDefault ==
  [][\A tok \in tokens, a \in AuditIds, body \in FindingBodies :
       (assertAuditAccess(tok, a).status = 0 /\ CreateFinding(tok, a, body))
         => IF body.title.type # "string" \/ body.title.text = ""
            THEN resp'.status = 400 /\ findings' = findings
            ELSE /\ resp'.status = 201
                 /\ Len(findings') = Len(findings) + 1
                 /\ SubSeq(findings', 1, Len(findings)) = findings
                 /\ findings'[Len(findings')].auditId = a
                 /\ findings'[Len(findings')].title = body.title.text
                 /\ body.severity = JsUndefined
                      => findings'[Len(findings')].severity = "medium"]_vars

\* the owner has created a finding with the default severity and has then
\* been refused a finding without a valid title
C21_Witness ==
  /\ resp.route = "createFinding"
  /\ resp.status = 400
  /\ resp.audit \in AuditIds
  /\ audits[resp.audit].userId = resp.tok.sub
  /\ \E f \in FindingIds :
       findings[f].auditId = resp.audit /\ findings[f].severity = "medium"

\* =================================================== claims on SpecCalc (2)
\* the item lines among the steps of a rendering
ItemLines(steps) == {i \in DOMAIN steps : steps[i] = "item"}

\* a cap on the item lines, whatever its value, lies below the length of
\* some item list; the lists drawn here reach MaxItems
PdfItemLineCap == MaxItems - 1

\* C22: buildPdfBuffer renders at most a fixed number of item lines however
\* long the item list is, and it resolves only after the document has been
\* ended, as its last step.
C22_PdfLinesCappedResolveAfterEnd ==
  (call.fn = "buildPdfBuffer" /\ call.done)
    => LET steps == call.out
       IN /\ Cardinality(ItemLines(steps)) <= PdfItemLineCap
          /\ steps[Len(steps)] = "resolve"
          /\ \E e \in DOMAIN steps :
               /\ steps[e] = "end"
               /\ \A i \in DOMAIN steps :
                    (steps[i] = "resolve" => i > e)
                    /\ (steps[i] \notin {"end", "resolve"} => i < e)

\* ================================================== claims on SpecFailure
\* C23: in every route a request whose handler meets an unexpected failure
\* is answered by the route with status 500 and a message that is the same
\* whatever the text of the error; so also in report.pdf, report.xlsx,
\* report.docx, GET /audits and GET /audits/:auditId.
C23_FailureIsGeneric500 ==
  [][\A route \in AllRoutes, tok \in tokens \cup {NoToken}, err \in Errors :
       HandlerFails(route, tok, err)
         => /\ resp'.route = route
            /\ resp'.status = 500
            /\ \A other \in Errors :
                 resp'.msg = FailureReply(build, route, tok, other).msg]_vars

\* ==================================================== claims on SpecRoles
\* C24: every User row a register request creates has role admin or
\* auditor, and role auditor when the request gives no role; so every User
\* row of every reachable state has one of the two roles.
C24_RoleIsAdminOrAuditor ==
  [][\A e \in Emails, r \in AnyRoleInputs :
       (Register(e, "p", r) /\ Len(users') > Len(users))
         => /\ users'[Len(users')].role \in {"admin", "auditor"}
            /\ r = "" => users'[Len(users')].role = "auditor"]_vars

\* ==================================================== claims on SpecStore
\* the file an upload step has put on the disk
NewFiles == disk' \ disk

\* C25: a media upload inserts its MediaFile row only when the whole stream
\* of the file part has been written to the file at the row's storage key,
\* and the row's sizeBytes is the size of that file on the disk; when the
\* write fails no row is inserted; when the insert fails after the write,
\* the whole file is on the disk and no row is inserted.
C25_RowAfterCompleteWrite ==
  [][\A tok \in tokens, a \in AuditIds, size \in StoreSizes \ {0},
        mode \in OverLimitModes, fault \in UploadFaults :
       (/\ requireAuditOwner(tok, a).status = 0
        /\ UploadMedia(tok, a, "image", size, mode, fault))
         => LET streamed == IF size > MAX_UPLOAD_BYTES
                            THEN MAX_UPLOAD_BYTES ELSE size
            IN /\ Len(media') > Len(media)
                    => LET row == media'[Len(media')]
                       IN /\ Len(media') = Len(media) + 1
                          /\ row.auditId = a
                          /\ NewFiles = {[key |-> row.storageKey,
                                          bytes |-> row.sizeBytes]}
                          /\ row.sizeBytes = streamed
               /\ fault = "write"
                    => /\ media' = media
                       /\ resp'.status = 500
               /\ fault = "insert"
                    => /\ media' = media
                       /\ resp'.status = 500
                       /\ mode = "truncate"
                            => \E f \in NewFiles : f.bytes = streamed]_vars

\* a file is on the disk without a row, left by an upload of the owner that
\* was answered 500, beside a row whose file is on the disk
C25_Witness ==
  /\ resp.route = "uploadMedia"
  /\ resp.status = 500
  /\ audits[resp.audit].userId = resp.tok.sub
  /\ \E f \in disk : \A m \in MediaIds : media[m].storageKey # f.key
  /\ \E m \in MediaIds :
       [key |-> media[m].storageKey, bytes |-> media[m].sizeBytes] \in disk

\* ================================================= claims on SpecRegister
\* C26: however register requests whose emails normalize to the same string
\* interleave, no two User rows have the same email, the request whose
\* create comes first is answered 201 and creates the row, and a request
\* whose create finds the row is answered 409 and creates none.
C26_RacingRegistersOneRow ==
  [][/\ \A u, v \in 1..Len(users') :
          users'[u].email = users'[v].email => u = v
     /\ \A r \in BagToSet(inflight) :
          RegisterCommit(r)
            => IF FindUserByEmail(r.email) # 0
               THEN resp'.status = 409 /\ users' = users
               ELSE /\ resp'.status = 201
                    /\ Len(users') = Len(users) + 1
                    /\ users'[Len(users')].email = r.email]_vars

\* =============================================== claims on SpecReportRace
\* the reports of the CSV files that are uploaded
UploadedReports ==
  {[summary |-> ComputeSummaryFor(build, StatusesOf(ItemsOf(build, rows))),
    items |-> ItemsOf(build, rows)] : rows \in CsvRows}

\* C27: however report uploads to one audit interleave, the reportJson the
\* audit holds is the {summary, items} of one single upload, its summary
\* computed from its own items; it never joins the summary of one upload
\* with the items of another.
C27_ReportOfOneUpload ==
  \A a \in AuditIds :
    audits[a].reportJson # NoReport
      => LET report == audits[a].reportJson[1]
         IN /\ report \in UploadedReports
            /\ report.summary
                 = ComputeSummaryFor(build, StatusesOf(report.items))

\* two uploads to one audit were in flight together; the first has written
\* its report and the second, of another file, has yet to write
C27_Witness ==
  /\ resp.route = "reportUpload"
  /\ resp.status = 200
  /\ audits[resp.audit].reportJson # NoReport
  /\ \E r \in BagToSet(inflight) :
       /\ r.auditId = resp.audit
       /\ r.report # audits[resp.audit].reportJson

\* =================================================== claims on SpecCalc (3)
\* C28: whatever the kind and the file name of a media upload to audit A,
\* the path the file is written at lies inside the directory STORAGE_ROOT/A
\* and the storage key that is stored begins with A.
C28_UploadStaysInAuditDir ==
  (call.fn = "uploadPath" /\ call.done /\ call.out.absPath.ok)
    => LET auditDir == STORAGE_ROOT \o <<Sep>> \o call.arg.auditId
           key == SplitPath(call.out.storageKey)
       IN /\ SegmentsWithin(auditDir, call.out.absPath.path)
          /\ key # <<>> /\ key[1] = call.arg.auditId

\* ==================================================== claims on SpecGates
\* C29: a request is answered once, and a request that requireAuth answers
\* 401 or that the ownership gate answers 403 or 404 writes nothing: the
\* step that sends such an answer changes no row and no file, and leaves no
\* request in flight that a later step would answer again.
C29_GateAnswerEndsRequest ==
  [][(resp' # resp /\ resp'.status \in {401, 403, 404})
       => UNCHANGED <<users, tokens, audits, media, disk, findings,
                      evidence, inflight>>]_vars

\* the second user has been answered 403 on an audit of the first, which
\* has a finding and a media file
C29_Witness ==
  /\ resp.status = 403
  /\ resp.route \in {"uploadMedia", "createFinding", "attachEvidence",
                     "reportUpload"}
  /\ resp.audit \in AuditIds
  /\ audits[resp.audit].userId \notin {0, resp.tok.sub}
  /\ \E f \in FindingIds : findings[f].auditId = resp.audit
  /\ \E m \in MediaIds : media[m].auditId = resp.audit

\* ================================================ claims on SpecReport (2)
\* C30: a report upload that fails, because the caller is not authorized,
\* the request has no file part, or the CSV is over the limit of
\* readSmallUploadToBuffer, leaves the reportJson of every audit as it was.
C30_FailedUploadKeepsReport ==
  [][\A tok \in tokens \cup {NoToken}, a \in ReqAuditIds, file \in ReportFiles :
       (/\ ReportUpload(tok, a, file)
        /\ \/ RequireAuth(tok).status # 0
           \/ requireAuditOwner(tok, a).status # 0
           \/ file.kind \in {"none", "large"})
         => /\ resp'.status >= 400
            /\ audits' = audits]_vars

\* the owner's upload has failed on an audit that holds a report
C30_Witness ==
  /\ resp.route = "reportUpload"
  /\ resp.status \in {400, 500}
  /\ audits[resp.audit].userId = resp.tok.sub
  /\ audits[resp.audit].reportJson # NoReport
  /\ audits[resp.audit].reportJson[1].items # <<>>
====
